---- MODULE Spec2Model ----
(***************************************************************************)
(* Model of the knowledge-fusion backend: the source resolvers and the     *)
(* call that fuses them with the knowledge base, the chat endpoint that    *)
(* makes that call, and the file cache:                                    *)
(*   backend/app/services/price_scraper.py   (PriceScraperService)         *)
(*   backend/app/services/weather_service.py (WeatherService)              *)
(*   backend/app/services/search_service.py  (SearchService)               *)
(*   backend/app/services/ollama_service.py  (OllamaService)               *)
(*   backend/app/routers/chat.py             (chat_endpoint)               *)
(*   backend/app/db/cache.py                 (SimpleCache)                 *)
(*                                                                         *)
(* Text that the code inspects (queries, provinces, snippets) is a         *)
(* sequence of one-character strings, so that lower(), strip(), split()    *)
(* and the substring test `in` are computed as Python computes them.       *)
(* Text that the code only copies (titles, URLs, JSON scalars) is a TLA+   *)
(* string.  An Optional value is <<>> (None) or <<v>>.  A call's outcome   *)
(* is [exc, val]: exc = TRUE when the call raised.                         *)
(***************************************************************************)
EXTENDS Naturals, Sequences, FiniteSets, TLC

VARIABLES
    price_pc,       \* position of the get_palay_data call
    province,       \* its argument province
    year,           \* its argument year
    price_log,      \* the upstream requests it has issued, with their responses
    price_ret,      \* its outcome [exc, val]
    search_api_key, \* SearchService.api_key
    search_pc,      \* position of the search call
    query,          \* its argument query
    num_results,    \* its argument num_results
    force,          \* its argument force
    search_log,     \* the upstream requests it has issued, with their responses
    search_ret,     \* its outcome [exc, val]
    weather_api_key,\* WeatherService.api_key
    weather_pc,     \* position of the get_weather call
    location,       \* its argument location
    weather_log,    \* the WeatherAPI.com requests it has issued, with their responses
    weather_ret,    \* its outcome [exc, val]
    fusion_pc,      \* position of the generate_response_with_data call
    message,        \* its argument message
    fusion_location,\* its argument location
    conversation_id,\* its argument conversation_id
    conversations,  \* OllamaService.conversations: the messages of each memory
    chat_history_text, \* its local chat_history_text
    knowledge_context, \* its local knowledge_context
    web_context,    \* its local web_context
    psa_context,    \* its local psa_context
    weather_context,\* its local weather_context
    all_sources,    \* its local all_sources (the elements of the list)
    fusion_calls,   \* the calls it has made: the lookup, the resolvers, the model
    fusion_ret,     \* its outcome [exc, val]
    cache_files,    \* the files of SimpleCache.cache_dir, by name
    cache_now,      \* the clock datetime.utcnow() reads, in seconds
    cache_op,       \* the last call on the cache and its outcome
    chat_request,   \* the ChatRequest chat_endpoint is serving or served last
    chat_response,  \* what chat_endpoint answered to it
    chat_now,       \* the clock datetime.now() reads, in seconds of the minute
    suspended       \* the generate_response_with_data calls waiting at an await

price_vars == <<price_pc, province, year, price_log, price_ret>>
search_vars ==
    <<search_api_key, search_pc, query, num_results, force, search_log, search_ret>>

weather_vars == <<weather_api_key, weather_pc, location, weather_log, weather_ret>>

fusion_vars ==
    <<fusion_pc, message, fusion_location, conversation_id, conversations,
      chat_history_text, knowledge_context, web_context, psa_context, weather_context,
      all_sources, fusion_calls, fusion_ret>>

cache_vars == <<cache_files, cache_now, cache_op>>

chat_vars == <<chat_request, chat_response, chat_now>>

loop_vars == <<suspended>>

vars == <<price_vars, search_vars, weather_vars, fusion_vars, cache_vars, chat_vars, loop_vars>>

----------------------------------------------------------------------------
(* Python values *)

None == <<>>
Some(v) == <<v>>
IsNone(o) == o = <<>>

Ret(v) == [exc |-> FALSE, val |-> v]
Raise == [exc |-> TRUE, val |-> None]

\* try: ... except Exception: return None
CatchReturnNone(r) == IF r.exc THEN Ret(None) ELSE r

\* dict.get(key, default)
GetD(d, key, default) == IF key \in DOMAIN d THEN d[key] ELSE default

EmptyDict == [k \in {} |-> ""]

----------------------------------------------------------------------------
(* Python str operations on character sequences *)

UpperAlpha ==
    <<"A","B","C","D","E","F","G","H","I","J","K","L","M","N","O","P","Q","R","S","T","U","V",
    "W","X","Y","Z">>
LowerAlpha ==
    <<"a","b","c","d","e","f","g","h","i","j","k","l","m","n","o","p","q","r","s","t","u","v",
    "w","x","y","z">>

LowerChar(c) ==
    IF \E i \in 1..Len(UpperAlpha) : UpperAlpha[i] = c
    THEN LowerAlpha[CHOOSE i \in 1..Len(UpperAlpha) : UpperAlpha[i] = c]
    ELSE c

\* str.lower()
Lower(s) == [i \in 1..Len(s) |-> LowerChar(s[i])]

IsSpace(c) == c \in {" ", "\t", "\n"}

\* str.strip()
Strip(s) ==
    LET keep == {i \in 1..Len(s) : ~IsSpace(s[i])}
    IN  IF keep = {} THEN <<>>
        ELSE SubSeq(s, CHOOSE i \in keep : \A j \in keep : i <= j,
                       CHOOSE i \in keep : \A j \in keep : j <= i)

\* len(str.split())
WordCount(s) ==
    Cardinality({i \in 1..Len(s) : ~IsSpace(s[i]) /\ (i = 1 \/ IsSpace(s[i - 1]))})

\* sub in s
Contains(s, sub) ==
    \E i \in 0..(Len(s) - Len(sub)) : SubSeq(s, i + 1, i + Len(sub)) = sub

\* any(keyword in s for keyword in keywords)
ContainsAny(s, keywords) == \E i \in 1..Len(keywords) : Contains(s, keywords[i])

----------------------------------------------------------------------------
(* Upstream HTTP responses *)

\* A JSON body: t is "invalid" (resp.json() raises), "null", "obj" (a dict,
\* v its members) or "str" (a JSON string, v.text its text).
JInvalid == [t |-> "invalid", v |-> EmptyDict]
JNull == [t |-> "null", v |-> EmptyDict]
JObj(members) == [t |-> "obj", v |-> members]
JStr(text) == [t |-> "str", v |-> [text |-> text]]

\* bool(data)
JTruthy(d) ==
    CASE d.t = "null" -> FALSE
      [] d.t = "obj" -> DOMAIN d.v # {}
      [] d.t = "str" -> d.v.text # ""

\* key in data: a dict's keys, or (a str body) the text itself
JHasKey(d, key) ==
    CASE d.t = "obj" -> key \in DOMAIN d.v
      [] d.t = "str" -> d.v.text = key

\* net: "ok" (a response arrived), "timeout" (ClientTimeout elapsed) or
\* "error" (connection failure): the last two raise inside session.get
HttpOk(status, body) == [net |-> "ok", status |-> status, json |-> body]
HttpTimeout == [net |-> "timeout", status |-> 0, json |-> JNull]
HttpError == [net |-> "error", status |-> 0, json |-> JNull]

----------------------------------------------------------------------------
(* PriceScraperService *)

\* "philippines"
S_philippines == <<"p","h","i","l","i","p","p","i","n","e","s">>
\* "Philippines"
S_Philippines == <<"P","h","i","l","i","p","p","i","n","e","s">>
\* "Philippines (National Average - "
S_FallbackPrefix ==
    <<"P","h","i","l","i","p","p","i","n","e","s"," ","(","N","a","t","i","o","n","a","l"," ",
    "A","v","e","r","a","g","e"," ","-"," ">>
\* " data unavailable)"
S_FallbackSuffix == <<" ","d","a","t","a"," ","u","n","a","v","a","i","l","a","b","l","e",")">>

\* "Benguet"
P_Benguet == <<"B","e","n","g","u","e","t">>
\* "Ifugao"
P_Ifugao == <<"I","f","u","g","a","o">>
\* "PHILIPPINES"
P_PHILIPPINES == <<"P","H","I","L","I","P","P","I","N","E","S">>

Provinces == {P_Benguet, P_Ifugao, S_Philippines, S_philippines, P_PHILIPPINES}
Years == {2023, 2024}

PsaUrl == "https://openstat.psa.gov.ph/PXWeb/pxweb/en/DB/DB__2E__CS/0012E4EVCP0.px"
DaUrl == "https://www.da.gov.ph/price-monitoring/"

\* Bodies the PSA endpoint may answer with
PsaBodies ==
    { JInvalid, JNull, JObj(EmptyDict), JStr("price_per_kg"),
      JObj([error |-> "no such series"]),
      JObj([price_per_kg |-> "23.5"]),
      JObj([price_per_kg |-> "null", date |-> "2024-06-30"]),
      JObj([price_per_kg |-> "21.0", total_production_mt |-> "1000",
            area_harvested_ha |-> "250", yield_mt_per_ha |-> "4.0",
            date |-> "2024-06-30"]) }

\* Bodies the DA endpoint may answer with
DaBodies ==
    { JInvalid, JNull, JObj(EmptyDict), JStr("price"),
      JObj([price_per_kg |-> "23.5"]),
      JObj([price |-> "24.5"]),
      JObj([price |-> "22.0", production |-> "900", area |-> "240",
            yield |-> "3.75", updated |-> "2024-05-31"]) }

\* Responses of the PSA endpoint: no response at all, a non-200 status
\* (whatever the body), or 200 with one of the bodies
PsaResponses ==
    { HttpTimeout, HttpError, HttpOk(500, JNull),
      HttpOk(404, JObj([price_per_kg |-> "23.5"])) }
        \cup {HttpOk(200, b) : b \in PsaBodies}

\* Responses of the DA endpoint
DaResponses ==
    { HttpTimeout, HttpError, HttpOk(500, JNull),
      HttpOk(404, JObj([price |-> "24.5"])) }
        \cup {HttpOk(200, b) : b \in DaBodies}

\* _format_psa_response; data.get raises AttributeError unless data is a dict
FormatPsaResponse(data, prov) ==
    IF data.t # "obj" THEN Raise
    ELSE Ret(Some(
        [ province |-> prov,
          year |-> 2024,
          data |-> [ average_price |-> GetD(data.v, "price_per_kg", "0"),
                     production_volume |-> GetD(data.v, "total_production_mt", "0"),
                     area_harvested |-> GetD(data.v, "area_harvested_ha", "0"),
                     yield_per_hectare |-> GetD(data.v, "yield_mt_per_ha", "0"),
                     unit |-> "MT (Metric Tons)",
                     currency |-> "PHP",
                     last_updated |-> GetD(data.v, "date", "now"),
                     source_url |-> PsaUrl,
                     source_title |-> "PSA OpenStat - Palay Production Estimates" ],
          sources |-> << [ title |-> "PSA OpenStat - Palay Production Estimates",
                           url |-> PsaUrl,
                           type |-> "official" ] >> ]))

\* _format_da_response
FormatDaResponse(data, prov) ==
    IF data.t # "obj" THEN Raise
    ELSE Ret(Some(
        [ province |-> prov,
          year |-> 2024,
          data |-> [ average_price |-> GetD(data.v, "price", "0"),
                     production_volume |-> GetD(data.v, "production", "0"),
                     area_harvested |-> GetD(data.v, "area", "0"),
                     yield_per_hectare |-> GetD(data.v, "yield", "0"),
                     unit |-> "MT (Metric Tons)",
                     currency |-> "PHP",
                     last_updated |-> GetD(data.v, "updated", "now"),
                     source_url |-> DaUrl,
                     source_title |-> "DA Price Monitoring" ],
          sources |-> << [ title |-> "Department of Agriculture - Price Monitoring",
                           url |-> DaUrl,
                           type |-> "official" ] >> ]))

PsaTryBody_no_field_test(resp, prov) ==
    IF resp.net # "ok" THEN Raise
    ELSE IF resp.status # 200 THEN Ret(None)
    ELSE IF resp.json.t = "invalid" THEN Raise
    ELSE IF JTruthy(resp.json)
         THEN FormatPsaResponse(resp.json, prov)
         ELSE Ret(None)

\* The try body of _get_psa_data: the GET, the status test, resp.json(),
\* the field test and the formatting
PsaTryBody(resp, prov) ==
    IF resp.net # "ok" THEN Raise
    ELSE IF resp.status # 200 THEN Ret(None)
    ELSE IF resp.json.t = "invalid" THEN Raise
    ELSE IF JTruthy(resp.json) /\ JHasKey(resp.json, "price_per_kg")
         THEN FormatPsaResponse(resp.json, prov)
         ELSE Ret(None)

\* The try body of _get_da_data
DaTryBody(resp, prov) ==
    IF resp.net # "ok" THEN Raise
    ELSE IF resp.status # 200 THEN Ret(None)
    ELSE IF resp.json.t = "invalid" THEN Raise
    ELSE IF JTruthy(resp.json) /\ JHasKey(resp.json, "price")
         THEN FormatDaResponse(resp.json, prov)
         ELSE Ret(None)

GetPsaData_nocatch(resp, prov) == PsaTryBody(resp, prov)

\* _get_psa_data
GetPsaData(resp, prov) == CatchReturnNone(PsaTryBody(resp, prov))

\* _get_da_data
GetDaData(resp, prov) == CatchReturnNone(DaTryBody(resp, prov))

\* f"Philippines (National Average - {province} data unavailable)"
FallbackLabel(prov) == S_FallbackPrefix \o prov \o S_FallbackSuffix

\* national_psa['province'] = ...; national_psa['data']['source_title'] += ...
MarkNationalPsa(rec, prov) ==
    [rec EXCEPT !.province = FallbackLabel(prov),
                !.data.source_title = @ \o " (National Fallback)"]

MarkNationalDa_unmarked(rec, prov) == rec

\* national_da['province'] = ...
MarkNationalDa(rec, prov) == [rec EXCEPT !.province = FallbackLabel(prov)]

IsNational_case_sensitive(prov) == prov = S_Philippines

\* if province.lower() != "philippines"
IsNational(prov) == Lower(prov) = S_philippines

TierEndpoint_swapped(pc) == IF pc \in {"psa", "national_psa"} THEN "da" ELSE "psa"
TierEndpoint(pc) == IF pc \in {"psa", "national_psa"} THEN "psa" ELSE "da"
TierRegion_national(pc, prov) == S_Philippines
TierRegion(pc, prov) == IF pc \in {"psa", "da"} THEN prov ELSE S_Philippines
TierResponses(pc) == IF TierEndpoint(pc) = "psa" THEN PsaResponses ELSE DaResponses

\* What the tier's call returns for an upstream response
TierData(pc, resp, prov) ==
    IF TierEndpoint(pc) = "psa"
    THEN GetPsaData(resp, TierRegion(pc, prov))
    ELSE GetDaData(resp, TierRegion(pc, prov))

\* get_palay_data after the await of tier pc returned (or raised) r:
\* the position it moves to and, once it returns, its outcome
PalayAfter(pc, r, prov) ==
    IF r.exc THEN [pc |-> "returned", ret |-> Ret(None)]
    ELSE IF ~IsNone(r.val) THEN
        [ pc |-> "returned",
          ret |-> CASE pc \in {"psa", "da"} -> r
                    [] pc = "national_psa" -> Ret(Some(MarkNationalPsa(r.val[1], prov)))
                    [] pc = "national_da" -> Ret(Some(MarkNationalDa(r.val[1], prov))) ]
    ELSE CASE pc = "psa" -> [pc |-> "da", ret |-> Ret(None)]
           [] pc = "da" ->
                IF ~IsNational(prov)
                THEN [pc |-> "national_psa", ret |-> Ret(None)]
                ELSE [pc |-> "returned", ret |-> Ret(None)]
           [] pc = "national_psa" -> [pc |-> "national_da", ret |-> Ret(None)]
           [] pc = "national_da" -> [pc |-> "returned", ret |-> Ret(None)]

\* No call of get_palay_data is in progress
PriceIdle ==
    /\ price_pc = "idle"
    /\ province = S_Philippines
    /\ year = 2024
    /\ price_log = <<>>
    /\ price_ret = Ret(None)

\* A caller invokes get_palay_data(province, year)
GetPalayData ==
    /\ price_pc = "idle"
    /\ \E prov \in Provinces, yr \in Years :
        /\ province' = prov
        /\ year' = yr
    /\ price_pc' = "psa"
    /\ price_log' = <<>>
    /\ price_ret' = Ret(None)
    /\ UNCHANGED <<search_vars, weather_vars, fusion_vars, cache_vars, chat_vars, loop_vars>>

\* One tier: the request, the upstream's response and what get_palay_data
\* does with it
PalayTier ==
    /\ price_pc \in {"psa", "da", "national_psa", "national_da"}
    /\ \E resp \in TierResponses(price_pc) :
        LET r == TierData(price_pc, resp, province)
            after == PalayAfter(price_pc, r, province)
        IN  /\ price_log' = Append(price_log,
                                   [ tier |-> price_pc,
                                     endpoint |-> TierEndpoint(price_pc),
                                     region |-> TierRegion(price_pc, province),
                                     year |-> year,
                                     resp |-> resp ])
            /\ price_pc' = after.pc
            /\ price_ret' = after.ret
    /\ UNCHANGED <<province, year>>
    /\ UNCHANGED <<search_vars, weather_vars, fusion_vars, cache_vars, chat_vars, loop_vars>>

\* The caller takes the result and the call's frame is gone; the service is
\* ready for the next call
PalayDone ==
    /\ price_pc = "returned"
    /\ price_pc' = "idle"
    /\ province' = S_Philippines
    /\ year' = 2024
    /\ price_log' = <<>>
    /\ price_ret' = Ret(None)
    /\ UNCHANGED <<search_vars, weather_vars, fusion_vars, cache_vars, chat_vars, loop_vars>>

----------------------------------------------------------------------------
(* SearchService *)

\* _is_weather_query: weather_keywords
weather_keywords ==
    << <<"w","e","a","t","h","e","r">>,   \* "weather"
       <<"f","o","r","e","c","a","s","t">>,   \* "forecast"
       <<"r","a","i","n">>,   \* "rain"
       <<"s","u","n">>,   \* "sun"
       <<"t","e","m","p","e","r","a","t","u","r","e">>,   \* "temperature"
       <<"t","y","p","h","o","o","n">>,   \* "typhoon"
       <<"s","t","o","r","m">>,   \* "storm"
       <<"c","l","i","m","a","t","e">>,   \* "climate"
       <<"h","u","m","i","d">>,   \* "humid"
       <<"d","r","y"," ","s","e","a","s","o","n">>,   \* "dry season"
       <<"w","e","t"," ","s","e","a","s","o","n">>,   \* "wet season"
       <<"c","l","o","u","d","y">>,   \* "cloudy"
       <<"u","l","a","n">>,   \* "ulan"
       <<"i","n","i","t">>,   \* "init"
       <<"b","a","g","y","o">>,   \* "bagyo"
       <<"p","a","n","a","h","o","n">>,   \* "panahon"
       <<"p","a","-","a","s","a">>,   \* "pa-asa"
       <<"p","a","g","a","s","a">> >>   \* "pagasa"

\* _is_time_or_date_query: time_keywords
time_keywords ==
    << <<"t","i","m","e">>,   \* "time"
       <<"d","a","t","e">>,   \* "date"
       <<"t","o","d","a","y">>,   \* "today"
       <<"n","o","w">>,   \* "now"
       <<"c","u","r","r","e","n","t"," ","t","i","m","e">>,   \* "current time"
       <<"w","h","a","t"," ","d","a","y"," ","i","s"," ","i","t">>,   \* "what day is it"
       <<"a","r","a","w">>,   \* "araw"
       <<"o","r","a","s">>,   \* "oras"
       <<"p","e","t","s","a">>,   \* "petsa"
       <<"a","n","o"," ","o","r","a","s">>,   \* "ano oras"
       <<"a","n","o","n","g"," ","a","r","a","w">> >>   \* "anong araw"

\* "weather", "forecast"
S_weather == <<"w","e","a","t","h","e","r">>
S_forecast == <<"f","o","r","e","c","a","s","t">>
\* "pilipinas"
S_pilipinas == <<"p","i","l","i","p","i","n","a","s">>
\* " Philippines"
S_space_Philippines == <<" ","P","h","i","l","i","p","p","i","n","e","s">>

\* Queries a caller may pass to search
\* "What's the weather today?"
Q_weather_today ==
    <<"W","h","a","t","'","s"," ","t","h","e"," ","w","e","a","t","h","e","r"," ","t","o","d",
    "a","y","?">>
\* "  TYPHOON Signal No. 2  "
Q_typhoon ==
    <<" "," ","T","Y","P","H","O","O","N"," ","S","i","g","n","a","l"," ","N","o","."," ","2",
    " "," ">>
\* "farmer training schedule in La Trinidad Benguet for highland vegetable growers"
Q_training ==
    <<"f","a","r","m","e","r"," ","t","r","a","i","n","i","n","g"," ","s","c","h","e","d","u",
    "l","e"," ","i","n"," ","L","a"," ","T","r","i","n","i","d","a","d"," ","B","e","n","g","u",
    "e","t"," ","f","o","r"," ","h","i","g","h","l","a","n","d"," ","v","e","g","e","t","a","b",
    "l","e"," ","g","r","o","w","e","r","s">>
\* "What time is it"
Q_time == <<"W","h","a","t"," ","t","i","m","e"," ","i","s"," ","i","t">>
\* "rice tariff update"
Q_update == <<"r","i","c","e"," ","t","a","r","i","f","f"," ","u","p","d","a","t","e">>
\* "corn seed subsidy list released today"
Q_six_words ==
    <<"c","o","r","n"," ","s","e","e","d"," ","s","u","b","s","i","d","y"," ","l","i","s","t",
    " ","r","e","l","e","a","s","e","d"," ","t","o","d","a","y">>
\* "is there corn seed subsidy released today"
Q_seven_words ==
    <<"i","s"," ","t","h","e","r","e"," ","c","o","r","n"," ","s","e","e","d"," ","s","u","b",
    "s","i","d","y"," ","r","e","l","e","a","s","e","d"," ","t","o","d","a","y">>
\* "what is the palay support program today in benguet"
Q_today_long ==
    <<"w","h","a","t"," ","i","s"," ","t","h","e"," ","p","a","l","a","y"," ","s","u","p","p",
    "o","r","t"," ","p","r","o","g","r","a","m"," ","t","o","d","a","y"," ","i","n"," ","b","e",
    "n","g","u","e","t">>
\* "best fertilizer for corn"
Q_fertilizer ==
    <<"b","e","s","t"," ","f","e","r","t","i","l","i","z","e","r"," ","f","o","r"," ","c","o",
    "r","n">>
\* "Sino ang director ng DA Philippines"
Q_director ==
    <<"S","i","n","o"," ","a","n","g"," ","d","i","r","e","c","t","o","r"," ","n","g"," ","D",
    "A"," ","P","h","i","l","i","p","p","i","n","e","s">>
\* "Kagawaran ng Pagsasaka PILIPINAS"
Q_pilipinas ==
    <<"K","a","g","a","w","a","r","a","n"," ","n","g"," ","P","a","g","s","a","s","a","k","a",
    " ","P","I","L","I","P","I","N","A","S">>
\* ""
Q_empty == <<>>

Queries ==
    { Q_weather_today, Q_typhoon, Q_training, Q_time,
      Q_update, Q_six_words, Q_seven_words, Q_today_long,
      Q_fertilizer, Q_director, Q_pilipinas, Q_empty }

\* Snippets of upstream search results
\* "Scattered rain showers over Benguet"
N_rain ==
    <<"S","c","a","t","t","e","r","e","d"," ","r","a","i","n"," ","s","h","o","w","e","r","s",
    " ","o","v","e","r"," ","B","e","n","g","u","e","t">>
\* "Sunny and fair weather expected"
N_sunny ==
    <<"S","u","n","n","y"," ","a","n","d"," ","f","a","i","r"," ","w","e","a","t","h","e","r",
    " ","e","x","p","e","c","t","e","d">>
\* "Typhoon to bring heavy rain"
N_typhoon_rain ==
    <<"T","y","p","h","o","o","n"," ","t","o"," ","b","r","i","n","g"," ","h","e","a","v","y",
    " ","r","a","i","n">>
\* "Tropical storm warning raised"
N_storm ==
    <<"T","r","o","p","i","c","a","l"," ","s","t","o","r","m"," ","w","a","r","n","i","n","g",
    " ","r","a","i","s","e","d">>
\* "Partly cloudy skies, 18 C"
N_cloudy ==
    <<"P","a","r","t","l","y"," ","c","l","o","u","d","y"," ","s","k","i","e","s",","," ","1",
    "8"," ","C">>

NumResults == {3, 5}

IsWeatherQuery_short_only(q) ==
    LET normalized_query == Strip(Lower(q))
    IN  /\ WordCount(normalized_query) < 5
        /\ (Contains(normalized_query, S_weather) \/ Contains(normalized_query, S_forecast))

\* _is_weather_query
IsWeatherQuery(q) ==
    LET normalized_query == Strip(Lower(q))
    IN  \/ ContainsAny(normalized_query, weather_keywords)
        \/ /\ WordCount(normalized_query) < 5
           /\ (Contains(normalized_query, S_weather) \/ Contains(normalized_query, S_forecast))

IsTimeOrDateQuery_shorter(q) ==
    LET normalized_query == Strip(Lower(q))
    IN  ContainsAny(normalized_query, time_keywords) /\ WordCount(normalized_query) < 6

\* _is_time_or_date_query
IsTimeOrDateQuery(q) ==
    LET normalized_query == Strip(Lower(q))
    IN  ContainsAny(normalized_query, time_keywords) /\ WordCount(normalized_query) < 7

SearchSkipped_ignores_force(q, f) == IsWeatherQuery(q) \/ IsTimeOrDateQuery(q)

SearchSkipped_time_only(q, f) == ~f /\ IsTimeOrDateQuery(q)

\* The credit-saving check of search: if not force, a weather or a
\* time/date query returns before the try block
SearchSkipped(q, f) == ~f /\ (IsWeatherQuery(q) \/ IsTimeOrDateQuery(q))

\* _get_fallback_results (timestamp is the wall clock's reading)
FallbackResults(q) ==
    [query |-> q, organic_results |-> <<>>, sources |-> <<>>, timestamp |-> "now"]

\* os.getenv("SERPER_API_KEY", <hardcoded key>): the environment's value, or
\* the key written in the source when the variable is unset
HardcodedSerperKey == "19acd2ad...fab942"
SerperEnv == {None, Some(""), Some("serper-key")}
ApiKeyFromEnv(env) == IF IsNone(env) THEN HardcodedSerperKey ELSE env[1]
SerperKeys == {ApiKeyFromEnv(env) : env \in SerperEnv}

\* The query sent upstream: " Philippines" appended unless the query names
\* the country
LocalizedQuery(q) ==
    IF ~Contains(Lower(q), S_philippines) /\ ~Contains(Lower(q), S_pilipinas)
    THEN q \o S_space_Philippines
    ELSE q

\* The GET search issues: headers and params
SearchRequest(q, n, key) ==
    [ url |-> "https://google.serper.dev/search",
      api_key |-> key,
      q |-> LocalizedQuery(q),
      num |-> n,
      gl |-> "ph",
      hl |-> "en" ]

\* dict.get(key): None when the key is absent
Get(d, key) == IF key \in DOMAIN d THEN Some(d[key]) ELSE None

\* SourceLink.__init__ (retrieved_at is the wall clock's reading)
SourceLink(title, url, snippet, source_type) ==
    [ title |-> title, url |-> url, snippet |-> snippet, source_type |-> source_type,
      retrieved_at |-> "now" ]

\* data.get("organic", [])[:5]
OrganicSlice(data) ==
    LET organic == GetD(data.v, "organic", <<>>)
    IN  SubSeq(organic, 1, IF Len(organic) < 5 THEN Len(organic) ELSE 5)

\* _parse_results; data.get and result.get raise AttributeError unless data
\* and every result read are dicts
ParseResults(data, q) ==
    IF data.t # "obj" THEN Raise
    ELSE LET first == OrganicSlice(data)
         IN  IF \E i \in 1..Len(first) : first[i].t # "obj" THEN Raise
             ELSE Ret(
                [ query |-> q,
                  organic_results |->
                      [ i \in 1..Len(first) |->
                          [ title |-> Get(first[i].v, "title"),
                            url |-> Get(first[i].v, "link"),
                            snippet |-> Get(first[i].v, "snippet"),
                            source |-> GetD(first[i].v, "source", "Serper Search"),
                            date |-> GetD(first[i].v, "date", "") ] ],
                  sources |->
                      [ i \in 1..Len(first) |->
                          SourceLink(GetD(first[i].v, "title", ""),
                                     GetD(first[i].v, "link", ""),
                                     GetD(first[i].v, "snippet", <<>>),
                                     "web") ],
                  timestamp |-> "now" ])

\* Results of the upstream search provider
EntrySeq ==
    << JObj([ title |-> "PAGASA Weather Forecast",
              link |-> "https://bagong.pagasa.dost.gov.ph/weather",
              snippet |-> N_rain, source |-> "PAGASA", date |-> "1 day ago" ]),
       JObj([ title |-> "Benguet Weather", link |-> "https://www.pagasa.dost.gov.ph/regional",
              snippet |-> N_sunny ]),
       JObj([ title |-> "Typhoon Bulletin", link |-> "https://bagong.pagasa.dost.gov.ph/weather",
              snippet |-> N_typhoon_rain ]),
       JObj([ title |-> "DA Price Watch", link |-> "https://www.da.gov.ph/price-monitoring/" ]),
       JObj([ link |-> "", snippet |-> N_storm ]),
       JObj([ title |-> "Cordillera News", snippet |-> N_cloudy, date |-> "2 days ago" ]) >>

MaxOrganic == 6

\* An organic array: n results, starting from the k-th of EntrySeq
OrganicList(k, n) ==
    [i \in 1..n |-> EntrySeq[((k + i - 2) % Len(EntrySeq)) + 1]]

OrganicLists == {OrganicList(k, n) : k \in 1..Len(EntrySeq), n \in 0..MaxOrganic}

\* Bodies the search provider may answer with: not JSON, not an object, an
\* object without "organic", an array holding a non-object, and the arrays
SearchBodies ==
    { JInvalid, JNull, JStr("Unauthorized."), JObj(EmptyDict),
      JObj([organic |-> <<EntrySeq[1], JStr("ad")>>]) }
        \cup {JObj([organic |-> l]) : l \in OrganicLists}

SearchResponses ==
    { HttpTimeout, HttpError, HttpOk(500, JNull),
      HttpOk(403, JObj([organic |-> OrganicList(1, 2)])) }
        \cup {HttpOk(200, b) : b \in SearchBodies}

\* The try body of search once a response is in: the status test,
\* resp.json() and the parsing
SearchTryBody(resp, q) ==
    IF resp.net # "ok" THEN Raise
    ELSE IF resp.status = 200
         THEN IF resp.json.t = "invalid" THEN Raise ELSE ParseResults(resp.json, q)
         ELSE Ret(FallbackResults(q))

CatchFallback_reraise(r, q) == r

\* except Exception: return self._get_fallback_results(query)
CatchFallback(r, q) == IF r.exc THEN Ret(FallbackResults(q)) ELSE r

\* search(q, n, f) with api_key key, the upstream answering resp if asked:
\* the requests issued (with their responses) and the outcome
SearchOutcome(q, n, f, key, resp) ==
    IF SearchSkipped(q, f) THEN [log |-> <<>>, ret |-> Ret(FallbackResults(q))]
    ELSE IF key = "" THEN [log |-> <<>>, ret |-> Ret(FallbackResults(q))]
    ELSE [ log |-> <<[req |-> SearchRequest(q, n, key), resp |-> resp]>>,
           ret |-> CatchFallback(SearchTryBody(resp, q), q) ]

\* A caller invokes search(query, num_results, force) and the call runs to
\* its return
Search ==
    /\ search_pc = "idle"
    /\ \E q \in Queries, n \in NumResults, f \in BOOLEAN, resp \in SearchResponses :
        LET out == SearchOutcome(q, n, f, search_api_key, resp)
        IN  /\ query' = q
            /\ num_results' = n
            /\ force' = f
            /\ search_log' = out.log
            /\ search_ret' = out.ret
    /\ search_pc' = "returned"
    /\ UNCHANGED search_api_key
    /\ UNCHANGED <<price_vars, weather_vars, fusion_vars, cache_vars, chat_vars, loop_vars>>

\* No call of search is in progress
SearchIdle ==
    /\ search_pc = "idle"
    /\ query = <<>>
    /\ num_results = 5
    /\ force = FALSE
    /\ search_log = <<>>
    /\ search_ret = Ret(FallbackResults(<<>>))

\* The caller takes the result and the call's frame is gone; the service is
\* ready for the next call
SearchDone ==
    /\ search_pc = "returned"
    /\ search_pc' = "idle"
    /\ query' = <<>>
    /\ num_results' = 5
    /\ force' = FALSE
    /\ search_log' = <<>>
    /\ search_ret' = Ret(FallbackResults(<<>>))
    /\ UNCHANGED search_api_key
    /\ UNCHANGED <<price_vars, weather_vars, fusion_vars, cache_vars, chat_vars, loop_vars>>

----------------------------------------------------------------------------
(* WeatherService *)
(* In the payloads, a field that is None in some payload is an Optional in  *)
(* every payload.                                                           *)

\* "PAGASA weather forecast "
S_pagasa_prefix ==
    <<"P","A","G","A","S","A"," ","w","e","a","t","h","e","r"," ","f","o","r","e","c","a","s",
    "t"," ">>
\* " today"
S_today_suffix == <<" ","t","o","d","a","y">>
\* ", Philippines"
S_comma_Philippines == <<",", " ","P","h","i","l","i","p","p","i","n","e","s">>
\* "rain", "shower", "sunny", "fair", "storm", "typhoon"
S_rain == <<"r","a","i","n">>
S_shower == <<"s","h","o","w","e","r">>
S_sunny == <<"s","u","n","n","y">>
S_fair == <<"f","a","i","r">>
S_storm == <<"s","t","o","r","m">>
S_typhoon == <<"t","y","p","h","o","o","n">>
\* "Data retrieved via search: "
S_note_prefix ==
    <<"D","a","t","a"," ","r","e","t","r","i","e","v","e","d"," ","v","i","a"," ","s","e","a",
    "r","c","h",":"," ">>
\* "..."
S_ellipsis == <<".",".",".">>

\* "Baguio"
N_Baguio == <<"B","a","g","u","i","o">>
\* "Real-time weather services are currently unreachable."
S_unreachable ==
    <<"R","e","a","l","-","t","i","m","e"," ","w","e","a","t","h","e","r"," ","s","e","r","v",
    "i","c","e","s"," ","a","r","e"," ","c","u","r","r","e","n","t","l","y"," ","u","n","r","e",
    "a","c","h","a","b","l","e",".">>

\* Locations a caller may pass to get_weather
\* "Baguio City, Philippines"
L_Baguio ==
    <<"B","a","g","u","i","o"," ","C","i","t","y",","," ","P","h","i","l","i","p","p","i","n",
    "e","s">>
\* "La Trinidad, Benguet"
L_LaTrinidad ==
    <<"L","a"," ","T","r","i","n","i","d","a","d",","," ","B","e","n","g","u","e","t">>

Locations == {<<>>, L_Baguio, L_LaTrinidad}

\* settings.WEATHERAPI_KEY: Optional[str], None unless the environment sets it
WeatherKeys == {None, Some(""), Some("wx-key")}

KeyTruthy_not_none(key) == ~IsNone(key)

\* bool(self.api_key)
KeyTruthy(key) == ~IsNone(key) /\ key[1] # ""

\* location_query of get_weather
LocationQuery(loc) ==
    IF loc # <<>> /\ ~Contains(loc, S_Philippines)
    THEN loc \o S_comma_Philippines
    ELSE IF loc # <<>> THEN loc ELSE S_Philippines

\* Bodies WeatherAPI.com may answer with
WeatherBodies ==
    { JInvalid, JNull, JStr("current"), JObj(EmptyDict),
      JObj([error |-> [code |-> "1006", message |-> "No matching location found."]]),
      JObj([ location |-> [name |-> N_Baguio, region |-> "Benguet",
                           localtime |-> "2024-06-30 14:00"],
             current |-> [ temp_c |-> "18.2", feelslike_c |-> "18.2", humidity |-> "88",
                           pressure_mb |-> "1012", condition |-> [text |-> "Light rain"],
                           wind_kph |-> "6.1", wind_dir |-> "SW", precip_mm |-> "1.2",
                           uv |-> "3", is_day |-> "1" ] ]),
      JObj([ current |-> [temp_c |-> "24.0", is_day |-> "0"] ]) }

WeatherResponses ==
    { HttpTimeout, HttpError, HttpOk(500, JNull),
      HttpOk(401, JObj([error |-> [code |-> "2006", message |-> "API key is invalid."]])) }
        \cup {HttpOk(200, b) : b \in WeatherBodies}

\* _format_weatherapi_current; data.get raises AttributeError unless data is
\* a dict
FormatWeatherApiCurrent(data, loc) ==
    IF data.t # "obj" THEN Raise
    ELSE LET current == GetD(data.v, "current", EmptyDict)
             location_data == GetD(data.v, "location", EmptyDict)
         IN  Ret(Some(
                [ location |-> GetD(location_data, "name", loc),
                  region |-> Get(location_data, "region"),
                  temperature |-> Get(current, "temp_c"),
                  feels_like |-> Get(current, "feelslike_c"),
                  humidity |-> Get(current, "humidity"),
                  pressure |-> Get(current, "pressure_mb"),
                  condition |-> Get(GetD(current, "condition", EmptyDict), "text"),
                  wind_speed |-> Get(current, "wind_kph"),
                  wind_direction |-> Get(current, "wind_dir"),
                  rainfall |-> Get(current, "precip_mm"),
                  uv_index |-> Get(current, "uv"),
                  is_day |-> (Get(current, "is_day") = Some("1")),
                  source_url |-> Some("https://www.weatherapi.com/"),
                  source_title |-> "WeatherAPI.com",
                  last_updated |-> GetD(location_data, "localtime", "now"),
                  sources |-> << [ title |-> Some("WeatherAPI.com"),
                                   url |-> Some("https://www.weatherapi.com/"),
                                   type |-> "weather" ] >> ]))

\* The GET _get_weatherapi issues for current.json
WeatherRequest(loc, key) ==
    [ url |-> "http://api.weatherapi.com/v1/current.json",
      key |-> key, q |-> loc, days |-> 1, aqi |-> "no" ]

\* The try body of _get_weatherapi once a response is in
WeatherApiTryBody(resp, loc) ==
    IF resp.net # "ok" THEN Raise
    ELSE IF resp.status = 200
         THEN IF resp.json.t = "invalid" THEN Raise
              ELSE FormatWeatherApiCurrent(resp.json, loc)
         ELSE Ret(None)

\* _get_weatherapi(loc, "current.json") with api_key key, the upstream
\* answering resp if asked: the requests issued and the outcome
WeatherApiOutcome(loc, key, resp) ==
    IF ~KeyTruthy(key) THEN [log |-> <<>>, ret |-> Ret(None)]
    ELSE [ log |-> <<[req |-> WeatherRequest(loc, key[1]), resp |-> resp]>>,
           ret |-> CatchReturnNone(WeatherApiTryBody(resp, loc)) ]

\* f"PAGASA weather forecast {location} today"
PagasaQuery(loc) == S_pagasa_prefix \o loc \o S_today_suffix

SnippetCondition_storm_first(snippet) ==
    IF Contains(Lower(snippet), S_storm) \/ Contains(Lower(snippet), S_typhoon)
    THEN "Stormy"
    ELSE IF Contains(Lower(snippet), S_rain) \/ Contains(Lower(snippet), S_shower)
    THEN "Rainy/Cloudy"
    ELSE IF Contains(Lower(snippet), S_sunny) \/ Contains(Lower(snippet), S_fair)
    THEN "Sunny/Fair"
    ELSE "Unknown"

\* The condition _get_pagasa_via_search reads from a snippet
SnippetCondition(snippet) ==
    IF Contains(Lower(snippet), S_rain) \/ Contains(Lower(snippet), S_shower)
    THEN "Rainy/Cloudy"
    ELSE IF Contains(Lower(snippet), S_sunny) \/ Contains(Lower(snippet), S_fair)
    THEN "Sunny/Fair"
    ELSE IF Contains(Lower(snippet), S_storm) \/ Contains(Lower(snippet), S_typhoon)
    THEN "Stormy"
    ELSE "Unknown"

\* f"{value}" of an Optional string
Format(o) == IF IsNone(o) THEN "None" ELSE o[1]

\* The try body of _get_pagasa_via_search after search returned (or raised)
\* search_result; top_result.get finds every key present, so an absent
\* snippet is None and snippet.lower() raises AttributeError
PagasaTryBody(search_result, loc) ==
    IF search_result.exc THEN Raise
    ELSE IF search_result.val.organic_results = <<>> THEN Ret(None)
    ELSE LET top_result == search_result.val.organic_results[1]
             snippet == top_result.snippet
             title == top_result.title
             link == top_result.url
         IN  IF IsNone(snippet) THEN Raise
             ELSE Ret(Some(
                [ location |-> loc,
                  temperature |-> Some("See link"),
                  humidity |-> Some("N/A"),
                  condition |-> Some(SnippetCondition(snippet[1])),
                  wind_speed |-> Some("N/A"),
                  rainfall |-> Some("Check forecast"),
                  note |-> S_note_prefix
                             \o SubSeq(snippet[1], 1,
                                       IF Len(snippet[1]) < 100 THEN Len(snippet[1]) ELSE 100)
                             \o S_ellipsis,
                  source_url |-> link,
                  source_title |-> "PAGASA via Search: " \o Format(title),
                  last_updated |-> "now",
                  sources |-> << [title |-> title, url |-> link, type |-> "official"] >> ]))

\* _get_pagasa_via_search
GetPagasaViaSearch(search_result, loc) == CatchReturnNone(PagasaTryBody(search_result, loc))

\* _get_default_weather
DefaultWeather(loc) ==
    [ location |-> loc,
      temperature |-> None,
      condition |-> Some("Data Unavailable"),
      note |-> S_unreachable,
      source_url |-> Some("https://www.pagasa.dost.gov.ph"),
      source_title |-> "PAGASA (Official Website)",
      last_updated |-> "now",
      sources |-> << [ title |-> Some("PAGASA Official Website"),
                       url |-> Some("https://www.pagasa.dost.gov.ph"),
                       type |-> "official" ] >> ]

\* if self.api_key: tier 1, else straight to tier 2
WeatherFirstTier(key) == IF KeyTruthy(key) THEN "weatherapi" ELSE "pagasa"

\* get_weather after _get_weatherapi returned (or raised) r: return a
\* payload, else go on to tier 2; the except clause returns the default for
\* the location as given
WeatherAfterTier1(r, loc) ==
    IF r.exc THEN [pc |-> "returned", ret |-> Ret(Some(DefaultWeather(loc)))]
    ELSE IF ~IsNone(r.val) THEN [pc |-> "returned", ret |-> r]
    ELSE [pc |-> "pagasa", ret |-> Ret(None)]

WeatherAfterTier2_no_default(r, loc) == r

\* get_weather after _get_pagasa_via_search returned (or raised) r: return
\* a payload, else the default for location_query
WeatherAfterTier2(r, loc) ==
    IF r.exc THEN Ret(Some(DefaultWeather(loc)))
    ELSE IF ~IsNone(r.val) THEN r
    ELSE Ret(Some(DefaultWeather(LocationQuery(loc))))

\* No call of get_weather is in progress
WeatherIdle ==
    /\ weather_pc = "idle"
    /\ location = <<>>
    /\ weather_log = <<>>
    /\ weather_ret = Ret(None)

\* A caller invokes get_weather(location)
GetWeather ==
    /\ weather_pc = "idle"
    /\ \E loc \in Locations : location' = loc
    /\ weather_pc' = WeatherFirstTier(weather_api_key)
    /\ weather_log' = <<>>
    /\ weather_ret' = Ret(None)
    /\ UNCHANGED weather_api_key
    /\ UNCHANGED <<price_vars, search_vars, fusion_vars, cache_vars, chat_vars, loop_vars>>

\* Tier 1: _get_weatherapi(location_query, "current.json") and what
\* get_weather does with its result
WeatherTier1 ==
    /\ weather_pc = "weatherapi"
    /\ \E resp \in WeatherResponses :
        LET out == WeatherApiOutcome(LocationQuery(location), weather_api_key, resp)
            after == WeatherAfterTier1(out.ret, location)
        IN  /\ weather_log' = weather_log \o out.log
            /\ weather_pc' = after.pc
            /\ weather_ret' = after.ret
    /\ UNCHANGED <<weather_api_key, location>>
    /\ UNCHANGED <<price_vars, search_vars, fusion_vars, cache_vars, chat_vars, loop_vars>>

\* Tier 2 and 3: _get_pagasa_via_search(location_query), whose search call
\* (force = True, 3 results) runs to its return, then the default payload if
\* it gave nothing
WeatherTier2 ==
    /\ weather_pc = "pagasa"
    /\ \E resp \in SearchResponses :
        LET q == PagasaQuery(LocationQuery(location))
            out == SearchOutcome(q, 3, TRUE, search_api_key, resp)
            r == GetPagasaViaSearch(out.ret, LocationQuery(location))
        IN  /\ query' = q
            /\ num_results' = 3
            /\ force' = TRUE
            /\ search_log' = out.log
            /\ search_ret' = out.ret
            /\ weather_ret' = WeatherAfterTier2(r, location)
    /\ weather_pc' = "returned"
    /\ UNCHANGED <<weather_api_key, location, weather_log>>
    /\ UNCHANGED <<search_api_key, search_pc>>
    /\ UNCHANGED <<price_vars, fusion_vars, cache_vars, chat_vars, loop_vars>>

\* The caller takes the result and the frames of the call and of its search
\* are gone; the service is ready for the next call
WeatherDone ==
    /\ weather_pc = "returned"
    /\ weather_pc' = "idle"
    /\ location' = <<>>
    /\ weather_log' = <<>>
    /\ weather_ret' = Ret(None)
    /\ query' = <<>>
    /\ num_results' = 5
    /\ force' = FALSE
    /\ search_log' = <<>>
    /\ search_ret' = Ret(FallbackResults(<<>>))
    /\ UNCHANGED weather_api_key
    /\ UNCHANGED <<search_api_key, search_pc>>
    /\ UNCHANGED <<price_vars, fusion_vars, cache_vars, chat_vars, loop_vars>>

----------------------------------------------------------------------------
(* OllamaService: the knowledge base *)
(* A context is the sequence of its section titles; a list built by        *)
(* list(set(...)) is a set.                                                 *)

\* AGRICULTURE_OFFICIALS: the fields _get_officials_info branches on or
\* reports as sources (dict order kept)
AGRICULTURE_OFFICIALS ==
    [ National |-> [DA |-> [website |-> "https://www.da.gov.ph/about-us/directory-of-officials/"]],
      Regional |-> <<
        [ region |-> "Region I", website |-> Some("https://ilocos.da.gov.ph/contact-us/"),
          regions_covered |->
            << <<"I","l","o","c","o","s"," ","N","o","r","t","e">>,
               <<"I","l","o","c","o","s"," ","S","u","r">>, <<"L","a"," ","U","n","i","o","n">>,
               <<"P","a","n","g","a","s","i","n","a","n">> >> ],
        [ region |-> "Region II", website |-> Some("https://cagayan.da.gov.ph/contact-us/"),
          regions_covered |->
            << <<"I","s","a","b","e","l","a">>,
               <<"N","u","e","v","a"," ","V","i","z","c","a","y","a">>,
               <<"Q","u","i","r","i","n","o">>, <<"B","a","t","a","n","e","s">> >> ],
        [ region |-> "Region III", website |-> Some("https://centralluzon.da.gov.ph/directory/"),
          regions_covered |->
            << <<"N","u","e","v","a"," ","E","c","i","j","a">>, <<"B","u","l","a","c","a","n">>,
               <<"P","a","m","p","a","n","g","a">>, <<"B","a","t","a","n","g","a","s">>,
               <<"L","a","g","u","n","a">>, <<"C","a","v","i","t","e">>, <<"R","i","z","a","l">> >> ],
        [ region |-> "Region IV-A", website |-> Some("https://calabarzon.da.gov.ph/contact-us/"),
          regions_covered |->
            << <<"C","a","v","i","t","e">>, <<"L","a","g","u","n","a">>,
               <<"B","a","t","a","n","g","a","s">>, <<"R","i","z","a","l">>,
               <<"Q","u","e","z","o","n">> >> ],
        [ region |-> "Region V", website |-> Some("https://bicol.da.gov.ph/directory/"),
          regions_covered |->
            << <<"A","l","b","a","y">>,
               <<"C","a","m","a","r","i","n","e","s"," ","N","o","r","t","e">>,
               <<"C","a","m","a","r","i","n","e","s"," ","S","u","r">>,
               <<"S","o","r","s","o","g","o","n">> >> ],
        [ region |-> "Region VI", website |-> Some("https://westernvisayas.da.gov.ph/directory/"),
          regions_covered |->
            << <<"I","l","o","i","l","o">>, <<"C","a","p","i","z">>,
               <<"A","n","t","i","q","u","e">>, <<"A","k","l","a","n">>,
               <<"G","u","i","m","a","r","a","s">> >> ],
        [ region |-> "Region VII", website |-> Some("https://centralvisayas.da.gov.ph/directory/"),
          regions_covered |->
            << <<"C","e","b","u">>, <<"B","o","h","o","l">>,
               <<"N","e","g","r","o","s"," ","O","r","i","e","n","t","a","l">>,
               <<"S","i","q","u","i","j","o","r">> >> ],
        [ region |-> "Region VIII", website |-> Some("https://easternvisayas.da.gov.ph/directory/"),
          regions_covered |->
            << <<"L","e","y","t","e">>,
               <<"S","o","u","t","h","e","r","n"," ","L","e","y","t","e">>,
               <<"S","a","m","a","r">>,
               <<"N","o","r","t","h","e","r","n"," ","S","a","m","a","r">>,
               <<"E","a","s","t","e","r","n"," ","S","a","m","a","r">> >> ],
        [ region |-> "Region IX", website |-> Some("https://zamboanga.da.gov.ph/directory/"),
          regions_covered |->
            << <<"Z","a","m","b","o","a","n","g","a"," ","d","e","l"," ","S","u","r">>,
               <<"Z","a","m","b","o","a","n","g","a"," ","d","e","l"," ","N","o","r","t","e">>,
               <<"Z","a","m","b","o","a","n","g","a"," ","S","i","b","u","g","a","y">> >> ],
        [ region |-> "Region X", website |-> Some("https://northernmindanao.da.gov.ph/directory/"),
          regions_covered |->
            << <<"M","i","s","a","m","i","s"," ","O","r","i","e","n","t","a","l">>,
               <<"B","u","k","i","d","n","o","n">>,
               <<"M","i","s","a","m","i","s"," ","O","c","c","i","d","e","n","t","a","l">>,
               <<"L","a","n","a","o"," ","d","e","l"," ","N","o","r","t","e">> >> ],
        [ region |-> "Region XI", website |-> Some("https://davao.da.gov.ph/directory/"),
          regions_covered |->
            << <<"D","a","v","a","o"," ","d","e","l"," ","S","u","r">>,
               <<"D","a","v","a","o"," ","O","r","i","e","n","t","a","l">>,
               <<"D","a","v","a","o"," ","d","e","l"," ","N","o","r","t","e">> >> ],
        [ region |-> "Region XII", website |-> Some("https://soccsksargen.da.gov.ph/directory/"),
          regions_covered |->
            << <<"S","o","u","t","h"," ","C","o","t","a","b","a","t","o">>,
               <<"S","a","r","a","n","g","a","n","i">>,
               <<"S","u","l","t","a","n"," ","K","u","d","a","r","a","t">>,
               <<"C","o","t","a","b","a","t","o">> >> ],
        [ region |-> "Region XIII", website |-> Some("https://caraga.da.gov.ph/directory/"),
          regions_covered |->
            << <<"A","g","u","s","a","n"," ","d","e","l"," ","N","o","r","t","e">>,
               <<"A","g","u","s","a","n"," ","d","e","l"," ","S","u","r">>,
               <<"S","u","r","i","g","a","o"," ","d","e","l"," ","N","o","r","t","e">>,
               <<"S","u","r","i","g","a","o"," ","d","e","l"," ","S","u","r">> >> ] >>,
      Provincial |-> <<
        [ province |-> <<"P","a","n","g","a","s","i","n","a","n">>, title |-> "PANGASINAN", website |-> Some("https://www.pangasinan.gov.ph/department/provincial-agriculture-office/") ],
        [ province |-> <<"N","u","e","v","a"," ","E","c","i","j","a">>, title |-> "NUEVA ECIJA", website |-> None ],
        [ province |-> <<"I","s","a","b","e","l","a">>, title |-> "ISABELA", website |-> None ],
        [ province |-> <<"L","a","g","u","n","a">>, title |-> "LAGUNA", website |-> None ],
        [ province |-> <<"I","l","o","i","l","o">>, title |-> "ILOILO", website |-> None ],
        [ province |-> <<"C","e","b","u">>, title |-> "CEBU", website |-> None ] >> ]

\* CROP_DATABASE: names and source of each crop (dict order kept)
CROP_DATABASE ==
    << [ crop_name |-> <<"p","a","l","a","y">>, title |-> "PALAY", source |-> Some("https://www.philrice.gov.ph/ricelytics/"),
         common_names |-> << <<"r","i","c","e">>, <<"p","a","l","a","y">>, <<"b","i","g","a","s">>,
            <<"p","a","d","i">> >> ],
       [ crop_name |-> <<"c","o","r","n">>, title |-> "CORN", source |-> Some("https://www.da.gov.ph/program/national-corn-program/"),
         common_names |-> << <<"c","o","r","n">>, <<"m","a","i","z","e">>, <<"m","a","i","s">>,
            <<"c","o","r","n"," ","o","n"," ","t","h","e"," ","c","o","b">> >> ],
       [ crop_name |-> <<"c","o","c","o","n","u","t">>, title |-> "COCONUT", source |-> Some("https://pca.gov.ph/index.php/resources/coconut-statistics"),
         common_names |-> << <<"c","o","c","o","n","u","t">>, <<"n","i","y","o","g">> >> ],
       [ crop_name |-> <<"s","u","g","a","r","c","a","n","e">>, title |-> "SUGARCANE", source |-> Some("https://www.sra.gov.ph/industry-update/"),
         common_names |-> << <<"s","u","g","a","r","c","a","n","e">>, <<"t","u","b","o">> >> ] >>

\* GOVERNMENT_PROGRAMS: the source of each program and the website of each
\* financing option
GOVERNMENT_PROGRAMS ==
    [ DA_Programs |->
        << [source |-> Some("https://rcef.da.gov.ph/")],
           [source |-> Some("https://hvcdp.da.gov.ph/")],
           [source |-> Some("https://nlp.da.gov.ph/")],
           [source |-> Some("https://philmech.gov.ph/")],
           [source |-> Some("https://bswm.da.gov.ph/")],
           [source |-> Some("https://climateresilient.da.gov.ph/")],
           [source |-> Some("https://acpc.gov.ph/")] >>,
      financing_options |->
        << [website |-> Some("https://www.landbank.com/loans/agricultural-lending")],
           [website |-> Some("https://www.dbp.ph/developmental-banking/agricultural-sector/")],
           [website |-> Some("https://quedancor.gov.ph/")],
           [website |-> Some("https://cda.gov.ph/")] >> ]

\* PEST_DISEASE_DATABASE["major_pests"]: name, crops and source of each pest
PEST_DISEASE_DATABASE ==
    [ major_pests |-> <<
        [ pest_name |-> <<"a","r","m","y","w","o","r","m">>, title |-> "ARMYWORM", source |-> Some("https://bpi.gov.ph/"),
          crops |-> << <<"p","a","l","a","y">>, <<"c","o","r","n">>, <<"s","u","g","a","r","c","a","n","e">> >> ],
        [ pest_name |-> <<"b","r","o","w","n","_","p","l","a","n","t","h","o","p","p","e","r">>, title |-> "BROWN_PLANTHOPPER", source |-> Some("https://www.philrice.gov.ph/ricelytics/"),
          crops |-> << <<"p","a","l","a","y">> >> ],
        [ pest_name |-> <<"r","i","c","e","_","b","l","a","s","t">>, title |-> "RICE_BLAST", source |-> Some("https://www.philrice.gov.ph/ricelytics/"),
          crops |-> << <<"p","a","l","a","y">> >> ],
        [ pest_name |-> <<"c","o","r","n","_","b","o","r","e","r">>, title |-> "CORN_BORER", source |-> Some("https://bpi.gov.ph/"),
          crops |-> << <<"c","o","r","n">> >> ] >> ]

\* SEASONAL_GUIDE: the source of each season
SEASONAL_GUIDE ==
    [ wet_season |-> [source |-> Some("https://www.da.gov.ph/")],
      dry_season |-> [source |-> Some("https://www.da.gov.ph/")] ]

\* _get_knowledge_base_info: the keywords of official/personnel queries
kb_keywords_officials ==
    << <<"h","e","a","d">>,   \* "head"
       <<"d","i","r","e","c","t","o","r">>,   \* "director"
       <<"o","f","f","i","c","e","r">>,   \* "officer"
       <<"o","f","f","i","c","i","a","l">>,   \* "official"
       <<"s","e","c","r","e","t","a","r","y">>,   \* "secretary"
       <<"a","d","m","i","n","i","s","t","r","a","t","o","r">>,   \* "administrator"
       <<"p","e","r","s","o","n","n","e","l">> >>   \* "personnel"

\* _get_knowledge_base_info: the keywords of crop queries
kb_keywords_crops ==
    << <<"p","a","l","a","y">>,   \* "palay"
       <<"r","i","c","e">>,   \* "rice"
       <<"c","o","r","n">>,   \* "corn"
       <<"m","a","i","s">>,   \* "mais"
       <<"c","o","c","o","n","u","t">>,   \* "coconut"
       <<"s","u","g","a","r","c","a","n","e">>,   \* "sugarcane"
       <<"c","r","o","p","s">>,   \* "crops"
       <<"f","a","r","m","i","n","g">>,   \* "farming"
       <<"c","u","l","t","i","v","a","t","i","o","n">> >>   \* "cultivation"

\* _get_knowledge_base_info: the keywords of government-program queries
kb_keywords_programs ==
    << <<"p","r","o","g","r","a","m">>,   \* "program"
       <<"l","o","a","n">>,   \* "loan"
       <<"f","i","n","a","n","c","i","n","g">>,   \* "financing"
       <<"s","u","b","s","i","d","y">>,   \* "subsidy"
       <<"s","u","p","p","o","r","t">>,   \* "support"
       <<"a","s","s","i","s","t","a","n","c","e">>,   \* "assistance"
       <<"c","r","e","d","i","t">> >>   \* "credit"

\* _get_knowledge_base_info: the keywords of pest-management queries
kb_keywords_pests ==
    << <<"p","e","s","t">>,   \* "pest"
       <<"d","i","s","e","a","s","e">>,   \* "disease"
       <<"i","n","f","e","s","t","a","t","i","o","n">>,   \* "infestation"
       <<"c","o","n","t","r","o","l">>,   \* "control"
       <<"s","p","r","a","y">>,   \* "spray"
       <<"p","e","s","t","i","c","i","d","e">>,   \* "pesticide"
       <<"a","p","h","i","d">>,   \* "aphid"
       <<"b","o","r","e","r">> >>   \* "borer"

\* _get_knowledge_base_info: the keywords of seasonal queries
kb_keywords_seasons ==
    << <<"s","e","a","s","o","n">>,   \* "season"
       <<"w","e","t">>,   \* "wet"
       <<"d","r","y">>,   \* "dry"
       <<"p","l","a","n","t","i","n","g">>,   \* "planting"
       <<"h","a","r","v","e","s","t">>,   \* "harvest"
       <<"p","l","a","n","t">>,   \* "plant"
       <<"p","l","a","n","t"," ","t","i","m","e">>,   \* "plant time"
       <<"w","e","a","t","h","e","r">> >>   \* "weather"

\* _get_officials_info: the keywords of national officials
kb_keywords_national ==
    << <<"s","e","c","r","e","t","a","r","y">>,   \* "secretary"
       <<"d","a">>,   \* "da"
       <<"d","e","p","a","r","t","m","e","n","t"," ","o","f"," ","a","g","r","i","c","u","l","t","u","r","e">>,   \* "department of agriculture"
       <<"n","a","t","i","o","n","a","l">> >>   \* "national"

\* _get_seasonal_info: the wet-season words
kb_keywords_wet ==
    << <<"w","e","t">>,   \* "wet"
       <<"j","u","n","e">>,   \* "june"
       <<"j","u","l","y">> >>   \* "july"

\* _get_seasonal_info: the dry-season words
kb_keywords_dry ==
    << <<"d","r","y">>,   \* "dry"
       <<"d","e","c","e","m","b","e","r">>,   \* "december"
       <<"m","a","r","c","h">> >>   \* "march"

\* if location: (None and "" are falsy)
LocationGiven(loc) == ~IsNone(loc) /\ loc[1] # <<>>

\* The values present among a collection of optional values
Present(opts) == {o[1] : o \in {x \in opts : ~IsNone(x)}}

\* _get_officials_info: the section titles written to the context, in order,
\* and the sources
GetOfficialsInfo(q, loc) ==
    LET regional == AGRICULTURE_OFFICIALS.Regional
        provincial == AGRICULTURE_OFFICIALS.Provincial
        national == ContainsAny(q, kb_keywords_national)
        Covers(i) ==
            \E j \in 1..Len(regional[i].regions_covered) :
                Contains(Lower(loc[1]), Lower(regional[i].regions_covered[j]))
        covering == IF LocationGiven(loc) THEN {i \in 1..Len(regional) : Covers(i)} ELSE {}
        first == CHOOSE i \in covering : \A j \in covering : i <= j
        InProvince(i) == LocationGiven(loc) /\ Contains(Lower(loc[1]), Lower(provincial[i].province))
        prov_context[i \in 0..Len(provincial)] ==
            IF i = 0 THEN <<>>
            ELSE prov_context[i - 1]
                    \o (IF InProvince(i) THEN <<provincial[i].title \o " AGRICULTURE">> ELSE <<>>)
    IN  [ context |->
              (IF national THEN <<"DEPARTMENT OF AGRICULTURE LEADERSHIP">> ELSE <<>>)
                \o (IF covering # {} THEN <<regional[first].region \o " AGRICULTURE OFFICE">>
                    ELSE <<>>)
                \o prov_context[Len(provincial)],
          sources |->
              (IF national THEN {AGRICULTURE_OFFICIALS.National.DA.website} ELSE {})
                \cup (IF covering # {} THEN Present({regional[first].website}) ELSE {})
                \cup Present({provincial[i].website : i \in {j \in 1..Len(provincial) : InProvince(j)}}) ]

\* _get_crop_info: the first crop of the database named in the query
GetCropInfo(q) ==
    LET Named(i) ==
            \/ Contains(q, CROP_DATABASE[i].crop_name)
            \/ ContainsAny(q, CROP_DATABASE[i].common_names)
        named == {i \in 1..Len(CROP_DATABASE) : Named(i)}
        first == CHOOSE i \in named : \A j \in named : i <= j
    IN  IF named = {} THEN [context |-> <<>>, sources |-> {}]
        ELSE [ context |-> <<CROP_DATABASE[first].title \o " CULTIVATION GUIDE">>,
               sources |-> Present({CROP_DATABASE[first].source}) ]

\* _get_programs_info
GetProgramsInfo ==
    LET programs == GOVERNMENT_PROGRAMS.DA_Programs
        financing == GOVERNMENT_PROGRAMS.financing_options
    IN  [ context |-> <<"GOVERNMENT AGRICULTURAL PROGRAMS", "AGRICULTURAL FINANCING OPTIONS">>,
          sources |-> Present({programs[i].source : i \in 1..Len(programs)})
                        \cup Present({financing[i].website : i \in 1..Len(financing)}) ]

\* _get_pest_management_info: every pest named in the query or attacking a
\* crop named in it
GetPestManagementInfo(q) ==
    LET pests == PEST_DISEASE_DATABASE.major_pests
        Named(i) == Contains(q, pests[i].pest_name) \/ ContainsAny(q, pests[i].crops)
        pest_context[i \in 0..Len(pests)] ==
            IF i = 0 THEN <<>>
            ELSE pest_context[i - 1] \o (IF Named(i) THEN <<pests[i].title>> ELSE <<>>)
    IN  [ context |-> <<"PEST & DISEASE MANAGEMENT">> \o pest_context[Len(pests)],
          sources |-> Present({pests[i].source : i \in {j \in 1..Len(pests) : Named(j)}}) ]

\* _get_seasonal_info
GetSeasonalInfo(q) ==
    LET wet == ContainsAny(q, kb_keywords_wet)
        dry == ContainsAny(q, kb_keywords_dry)
    IN  [ context |-> <<"SEASONAL AGRICULTURAL GUIDE">>
                        \o (IF wet THEN <<"WET SEASON">> ELSE <<>>)
                        \o (IF dry THEN <<"DRY SEASON">> ELSE <<>>),
          sources |-> (IF wet THEN Present({SEASONAL_GUIDE.wet_season.source}) ELSE {})
                        \cup (IF dry THEN Present({SEASONAL_GUIDE.dry_season.source}) ELSE {}) ]

NoInfo == [context |-> <<>>, sources |-> {}]

\* _get_knowledge_base_info: knowledge_context (its section titles) and
\* list(set(sources)), a list without duplicates in no particular order
GetKnowledgeBaseInfo(msg, loc) ==
    LET query_lower == Lower(msg)
        officials == IF ContainsAny(query_lower, kb_keywords_officials)
                     THEN GetOfficialsInfo(query_lower, loc) ELSE NoInfo
        crops == IF ContainsAny(query_lower, kb_keywords_crops)
                 THEN GetCropInfo(query_lower) ELSE NoInfo
        programs == IF ContainsAny(query_lower, kb_keywords_programs)
                    THEN GetProgramsInfo ELSE NoInfo
        pests == IF ContainsAny(query_lower, kb_keywords_pests)
                 THEN GetPestManagementInfo(query_lower) ELSE NoInfo
        seasons == IF ContainsAny(query_lower, kb_keywords_seasons)
                   THEN GetSeasonalInfo(query_lower) ELSE NoInfo
    IN  [ context |-> officials.context \o crops.context \o programs.context
                        \o pests.context \o seasons.context,
          sources |-> officials.sources \cup crops.sources \cup programs.sources
                        \cup pests.sources \cup seasons.sources ]

----------------------------------------------------------------------------
(* OllamaService.generate_response_with_data                                *)
(* A text block of the system prompt is None ("") or the block's parts.     *)

\* generate_response_with_data: price_keywords
price_keywords ==
    << <<"p","r","i","c","e">>,   \* "price"
       <<"p","r","e","s","y","o">>,   \* "presyo"
       <<"c","o","s","t">>,   \* "cost"
       <<"m","a","g","k","a","n","o">>,   \* "magkano"
       <<"s","r","p">>,   \* "srp"
       <<"m","a","r","k","e","t"," ","v","a","l","u","e">>,   \* "market value"
       <<"b","e","n","t","a">>,   \* "benta"
       <<"h","a","l","a","g","a">> >>   \* "halaga"

\* generate_response_with_data: force_web_search_keywords
force_web_search_keywords ==
    << <<"w","h","o"," ","i","s">>,   \* "who is"
       <<"s","i","n","o"," ","a","n","g">>,   \* "sino ang"
       <<"s","i","n","o">>,   \* "sino"
       <<"h","e","a","d"," ","o","f">>,   \* "head of"
       <<"d","i","r","e","c","t","o","r"," ","o","f">>,   \* "director of"
       <<"o","f","f","i","c","i","a","l">>,   \* "official"
       <<"p","e","r","s","o","n">>,   \* "person"
       <<"s","e","c","r","e","t","a","r","y">>,   \* "secretary"
       <<"a","d","m","i","n","i","s","t","r","a","t","o","r">>,   \* "administrator"
       <<"c","o","n","t","a","c","t">>,   \* "contact"
       <<"p","h","o","n","e">>,   \* "phone"
       <<"a","d","d","r","e","s","s">>,   \* "address"
       <<"h","o","t","l","i","n","e">>,   \* "hotline"
       <<"w","e","b","s","i","t","e">>,   \* "website"
       <<"e","m","a","i","l">> >>   \* "email"

\* generate_response_with_data: regular_web_search_keywords
regular_web_search_keywords ==
    << <<"c","u","r","r","e","n","t">>,   \* "current"
       <<"l","a","t","e","s","t">>,   \* "latest"
       <<"t","o","d","a","y">>,   \* "today"
       <<"n","o","w">>,   \* "now"
       <<"r","e","c","e","n","t">>,   \* "recent"
       <<"n","e","w","s">>,   \* "news"
       <<"u","p","d","a","t","e">>,   \* "update"
       <<"a","n","n","o","u","n","c","e","m","e","n","t">>,   \* "announcement"
       <<"a","l","e","r","t">> >>   \* "alert"

\* generate_response_with_data: the keywords that trigger the PSA data block
psa_keywords ==
    << <<"p","r","i","c","e">>,   \* "price"
       <<"p","r","e","s","y","o">>,   \* "presyo"
       <<"p","r","o","d","u","c","t","i","o","n">>,   \* "production"
       <<"a","r","e","a">>,   \* "area"
       <<"y","i","e","l","d">>,   \* "yield"
       <<"p","a","l","a","y">>,   \* "palay"
       <<"r","i","c","e">> >>   \* "rice"

\* generate_response_with_data: the keywords that trigger the weather data block
weather_data_keywords ==
    << <<"w","e","a","t","h","e","r">>,   \* "weather"
       <<"p","a","n","a","h","o","n">>,   \* "panahon"
       <<"f","o","r","e","c","a","s","t">>,   \* "forecast"
       <<"u","l","a","n">>,   \* "ulan"
       <<"c","l","i","m","a","t","e">> >>   \* "climate"

\* Messages a caller may pass to generate_response_with_data
\* "price of rice"
M_price_rice == <<"p","r","i","c","e"," ","o","f"," ","r","i","c","e">>
\* "magkano ang kamatis"
M_magkano == <<"m","a","g","k","a","n","o"," ","a","n","g"," ","k","a","m","a","t","i","s">>
\* "rice planting guide"
M_rice_planting ==
    <<"r","i","c","e"," ","p","l","a","n","t","i","n","g"," ","g","u","i","d","e">>
\* "sino ang secretary ng DA"
M_secretary ==
    <<"s","i","n","o"," ","a","n","g"," ","s","e","c","r","e","t","a","r","y"," ","n","g"," ",
    "D","A">>
\* "Presyo ng palay at panahon"
M_presyo_panahon ==
    <<"P","r","e","s","y","o"," ","n","g"," ","p","a","l","a","y"," ","a","t"," ","p","a","n",
    "a","h","o","n">>
\* "weather forecast today"
M_weather_today ==
    <<"w","e","a","t","h","e","r"," ","f","o","r","e","c","a","s","t"," ","t","o","d","a","y">>
\* "latest farming news"
M_latest == <<"l","a","t","e","s","t"," ","f","a","r","m","i","n","g"," ","n","e","w","s">>
\* "hello"
M_hello == <<"h","e","l","l","o">>
\* "salamat po"
M_salamat == <<"s","a","l","a","m","a","t"," ","p","o">>

\* "who is the latest climate official"
M_climate_official ==
    <<"w","h","o"," ","i","s"," ","t","h","e"," ","l","a","t","e","s","t"," ","c","l","i",
    "m","a","t","e"," ","o","f","f","i","c","i","a","l">>
\* "sino ang may presyo update"
M_sino_presyo ==
    <<"s","i","n","o"," ","a","n","g"," ","m","a","y"," ","p","r","e","s","y","o"," ","u",
    "p","d","a","t","e">>

Messages ==
    { M_price_rice, M_magkano, M_rice_planting, M_secretary,
      M_presyo_panahon, M_weather_today, M_latest, M_hello, M_climate_official,
      M_sino_presyo }

\* "latest price of "
S_latest_price_of == <<"l","a","t","e","s","t"," ","p","r","i","c","e"," ","o","f"," ">>
\* " in "
S_in == <<" ","i","n"," ">>
\* " Department of Agriculture Philippines"
S_DA_Philippines ==
    <<" ","D","e","p","a","r","t","m","e","n","t"," ","o","f"," ","A","g","r","i","c","u","l",
    "t","u","r","e"," ","P","h","i","l","i","p","p","i","n","e","s">>
\* "Pangasinan"
P_Pangasinan == <<"P","a","n","g","a","s","i","n","a","n">>
\* "National Fallback"
S_National_Fallback == <<"N","a","t","i","o","n","a","l"," ","F","a","l","l","b","a","c","k">>

\* Locations a caller may pass to generate_response_with_data
FusionLocations == {None, Some(L_LaTrinidad), Some(P_Pangasinan)}

\* Conversation ids a caller may pass
ConversationIds == {Some("session-1"), Some("session-2")}

\* is_price_query
IsPriceQuery(msg) == ContainsAny(Lower(msg), price_keywords)

\* is_about_people
IsAboutPeople(msg) == ContainsAny(Lower(msg), force_web_search_keywords)

\* needs_web_search
NeedsWebSearch(msg) ==
    \/ IsAboutPeople(msg)
    \/ ContainsAny(Lower(msg), regular_web_search_keywords)
    \/ IsPriceQuery(msg)

\* if any(keyword in message_lower for keyword in ["price", "presyo", ...])
NeedsPsaData(msg) == ContainsAny(Lower(msg), psa_keywords)

\* if any(keyword in message_lower for keyword in ["weather", "panahon", ...])
NeedsWeatherData(msg) == ContainsAny(Lower(msg), weather_data_keywords)

\* location or 'Philippines'
LocationOrPhilippines(loc) == IF LocationGiven(loc) THEN loc[1] ELSE S_Philippines

\* s.split(',')[0]
BeforeComma(s) ==
    LET commas == {i \in 1..Len(s) : s[i] = ","}
        first == CHOOSE i \in commas : \A j \in commas : i <= j
    IN  IF commas = {} THEN s ELSE SubSeq(s, 1, first - 1)

\* province of the PSA block: "Pangasinan" unless a location is given
PsaProvince(loc) == IF LocationGiven(loc) THEN Strip(BeforeComma(loc[1])) ELSE P_Pangasinan

WebSearchCall_unforced(msg, loc) ==
    IF IsPriceQuery(msg)
    THEN [ branch |-> "price",
           query |-> S_latest_price_of \o msg \o S_in \o LocationOrPhilippines(loc)
                        \o S_DA_Philippines,
           num_results |-> 5, force |-> FALSE ]
    ELSE IF IsAboutPeople(msg)
    THEN [branch |-> "people", query |-> msg, num_results |-> 5, force |-> FALSE]
    ELSE [branch |-> "regular", query |-> msg, num_results |-> 3, force |-> FALSE]

WebSearchCall_people_first(msg, loc) ==
    IF IsAboutPeople(msg)
    THEN [branch |-> "people", query |-> msg, num_results |-> 5, force |-> FALSE]
    ELSE IF IsPriceQuery(msg)
    THEN [ branch |-> "price",
           query |-> S_latest_price_of \o msg \o S_in \o LocationOrPhilippines(loc)
                        \o S_DA_Philippines,
           num_results |-> 5, force |-> TRUE ]
    ELSE [branch |-> "regular", query |-> msg, num_results |-> 3, force |-> FALSE]

\* The search call of the web-search block: its branch and its arguments
WebSearchCall(msg, loc) ==
    IF IsPriceQuery(msg)
    THEN [ branch |-> "price",
           query |-> S_latest_price_of \o msg \o S_in \o LocationOrPhilippines(loc)
                        \o S_DA_Philippines,
           num_results |-> 5, force |-> TRUE ]
    ELSE IF IsAboutPeople(msg)
    THEN [branch |-> "people", query |-> msg, num_results |-> 5, force |-> FALSE]
    ELSE [branch |-> "regular", query |-> msg, num_results |-> 3, force |-> FALSE]

\* The header of the web block
WebHeader(branch) ==
    CASE branch = "price" -> "LATEST MARKET PRICES (WEB VERIFIED)"
      [] branch = "people" -> "VERIFICATION FROM WEB"
      [] branch = "regular" -> "LATEST INFORMATION"

\* organic_results[:3] of the price and people branches, [:2] of the
\* regular branch
WebResultsUsed(branch, organic_results) ==
    LET n == IF branch = "regular" THEN 2 ELSE 3
    IN  SubSeq(organic_results, 1, IF Len(organic_results) < n THEN Len(organic_results) ELSE n)

NoBlock == [context |-> None, sources |-> {}]

\* The try body of the web-search block after search returned (or raised)
\* r: web_context and web_sources (the elements of the list)
WebTryBody(branch, r) ==
    IF r.exc THEN Raise
    ELSE IF r.val.organic_results = <<>> THEN Ret(NoBlock)
    ELSE LET used == WebResultsUsed(branch, r.val.organic_results)
         IN  Ret([ context |->
                       Some([ section |-> WebHeader(branch),
                              results |->
                                  [ i \in 1..Len(used) |->
                                      [ title |-> used[i].title,
                                        snippet |-> used[i].snippet,
                                        source |-> IF branch = "regular" THEN None
                                                   ELSE Some(used[i].url) ] ] ]),
                   sources |-> {used[i].url : i \in 1..Len(used)} ])

\* except Exception: the block contributes nothing
CatchNoBlock(r) == IF r.exc THEN NoBlock ELSE r.val

\* "National Fallback" in str(psa_data)
IsNationalFallback(psa_data) ==
    \/ Contains(psa_data.data.source_title, "National Fallback")
    \/ Contains(psa_data.province, S_National_Fallback)

\* psa_data.get("data", {}).get("source_url"), else the PSA database page
PsaSourceUrl(psa_data) ==
    IF psa_data.data.source_url # "" THEN psa_data.data.source_url
    ELSE "https://openstat.psa.gov.ph/PXWeb/pxweb/en/DB/DB__2M__NWSNEW/?tablelist=true"

\* The try body of the PSA block after get_palay_data returned (or raised) r
PsaTryBlock(r) ==
    IF r.exc THEN Raise
    ELSE IF IsNone(r.val) THEN Ret(NoBlock)
    ELSE Ret([ context |-> Some([ section |-> "OFFICIAL PSA BENCHMARK DATA (2024)",
                                  data |-> r.val[1],
                                  note |-> IsNationalFallback(r.val[1]) ]),
               sources |-> {Some(PsaSourceUrl(r.val[1]))} ])

\* weather_data.get("source_url"), else the PAGASA forecast page
WeatherSourceUrl(weather_data) ==
    IF ~IsNone(weather_data.source_url) /\ weather_data.source_url[1] # ""
    THEN weather_data.source_url[1]
    ELSE "https://bagong.pagasa.dost.gov.ph/weather"

\* The try body of the weather block after get_weather returned (or
\* raised) r
WeatherTryBlock(r) ==
    IF r.exc THEN Raise
    ELSE IF IsNone(r.val) THEN Ret(NoBlock)
    ELSE Ret([ context |-> Some([section |-> "WEATHER DATA", data |-> r.val[1]]),
               sources |-> {Some(WeatherSourceUrl(r.val[1]))} ])

\* Organic results the search provider may answer a fusion call's search
\* with: a link to the PAGASA site, a result without a link and one with an
\* empty link
FusionOrganic ==
    << JObj([ title |-> "PAGASA", link |-> "https://www.pagasa.dost.gov.ph/",
              snippet |-> N_rain ]),
       EntrySeq[6], EntrySeq[5], EntrySeq[4] >>

\* Responses of the search provider during a fusion call
FusionSearchResponses ==
    { HttpTimeout,
      HttpOk(200, JObj([organic |-> <<>>])),
      HttpOk(200, JObj([organic |-> FusionOrganic])),
      HttpOk(200, JObj([organic |-> OrganicList(4, 3)])) }

PsaUsable == HttpOk(200, JObj([price_per_kg |-> "23.5"]))
DaUsable == HttpOk(200, JObj([price |-> "24.5"]))

\* Responses of the price endpoints during a fusion call, one per tier: no
\* tier answers, or the tiers before the first usable answer time out
FusionPriceResponses ==
    { [psa |-> HttpTimeout, da |-> HttpTimeout,
       national_psa |-> HttpTimeout, national_da |-> HttpTimeout],
      [psa |-> PsaUsable, da |-> HttpTimeout,
       national_psa |-> HttpTimeout, national_da |-> HttpTimeout],
      [psa |-> HttpTimeout, da |-> DaUsable,
       national_psa |-> HttpTimeout, national_da |-> HttpTimeout],
      [psa |-> HttpTimeout, da |-> HttpTimeout,
       national_psa |-> PsaUsable, national_da |-> HttpTimeout],
      [psa |-> HttpTimeout, da |-> HttpTimeout,
       national_psa |-> HttpTimeout, national_da |-> DaUsable] }

\* Responses of WeatherAPI.com during a fusion call
FusionWeatherResponses ==
    {HttpTimeout, HttpOk(200, JObj([current |-> [temp_c |-> "24.0", is_day |-> "0"]]))}

\* get_palay_data(prov, yr) run from tier pc to its return, the upstream
\* answering resps[tier] to each tier asked: the requests issued and the
\* outcome
RECURSIVE PalayRun(_, _, _, _, _)
PalayRun(pc, prov, yr, resps, log) ==
    LET r == TierData(pc, resps[pc], prov)
        after == PalayAfter(pc, r, prov)
        issued == Append(log, [ tier |-> pc,
                                endpoint |-> TierEndpoint(pc),
                                region |-> TierRegion(pc, prov),
                                year |-> yr,
                                resp |-> resps[pc] ])
    IN  IF after.pc = "returned" THEN [log |-> issued, ret |-> after.ret]
        ELSE PalayRun(after.pc, prov, yr, resps, issued)

\* get_weather(loc) run to its return: the requests issued to WeatherAPI.com
\* and to the search provider, and the outcome
WeatherRun(loc, wkey, skey, wresp, sresp) ==
    LET tier1 == WeatherApiOutcome(LocationQuery(loc), wkey, wresp)
        after == WeatherAfterTier1(tier1.ret, loc)
        found == SearchOutcome(PagasaQuery(LocationQuery(loc)), 3, TRUE, skey, sresp)
        tier2 == GetPagasaViaSearch(found.ret, LocationQuery(loc))
    IN  IF WeatherFirstTier(wkey) = "weatherapi" /\ after.pc = "returned"
        THEN [log |-> tier1.log, ret |-> after.ret]
        ELSE [ log |-> (IF WeatherFirstTier(wkey) = "weatherapi" THEN tier1.log ELSE <<>>)
                          \o found.log,
               ret |-> WeatherAfterTier2(tier2, loc) ]

\* ConversationBufferWindowMemory(k=10)
memory_k == 10

LoadMemoryVariables_whole(messages) == messages

LoadMemoryVariables_oldest(messages) ==
    IF Len(messages) <= 2 * memory_k THEN messages
    ELSE SubSeq(messages, 1, 2 * memory_k)

\* memory.load_memory_variables({})["chat_history"]: the last k exchanges,
\* two messages each
LoadMemoryVariables(messages) ==
    IF Len(messages) <= 2 * memory_k THEN messages
    ELSE SubSeq(messages, Len(messages) - 2 * memory_k + 1, Len(messages))

SaveContext_twice(messages, msg, response) ==
    messages \o <<[type |-> "human", content |-> msg], [type |-> "ai", content |-> response],
                  [type |-> "human", content |-> msg], [type |-> "ai", content |-> response]>>

\* memory.save_context({"input": message}, {"output": response})
SaveContext(messages, msg, response) ==
    messages \o <<[type |-> "human", content |-> msg], [type |-> "ai", content |-> response]>>

\* self.conversations = {}
NoConversations == [c \in {} |-> <<>>]

\* if conversation_id: (None and "" are falsy)
ConversationGiven(cid) == ~IsNone(cid) /\ cid[1] # ""

GetOrCreateMemory_fresh(convs, cid) ==
    IF cid \in DOMAIN convs THEN convs ELSE (cid :> <<>>)

\* _get_or_create_memory: a memory without messages for an id not seen
\* before
GetOrCreateMemory(convs, cid) ==
    IF cid \in DOMAIN convs THEN convs ELSE convs @@ (cid :> <<>>)

\* chat_history_text: one line per message of the window
ChatHistoryText(window) ==
    [ i \in 1..Len(window) |->
        [ role |-> IF window[i].type = "human" THEN "Human" ELSE "Assistant",
          content |-> window[i].content ] ]

SystemPrompt_price_before_search(history, kb, web, psa, weather, loc) ==
    << [block |-> "history", text |-> history],
       [block |-> "knowledge", text |-> kb],
       [block |-> "psa", text |-> psa],
       [block |-> "weather", text |-> weather],
       [block |-> "web", text |-> web],
       [block |-> "location", text |-> loc] >>

\* system_prompt: the blocks of the template in its order, then the user's
\* location
SystemPrompt(history, kb, web, psa, weather, loc) ==
    << [block |-> "history", text |-> history],
       [block |-> "knowledge", text |-> kb],
       [block |-> "web", text |-> web],
       [block |-> "psa", text |-> psa],
       [block |-> "weather", text |-> weather],
       [block |-> "location", text |-> loc] >>

\* What self.llm.invoke may do: raise, or return a text (its lines)
LlmOutcomes ==
    { Raise,
      Ret(<<"Palay sells at PHP 23.50 per kilo.", "Let me know if you need more.">>) }

\* unwanted_phrases
unwanted_phrases ==
    <<"Alternatively", "Let me know", "how else can", "Source: None", "Note:", "However,">>

\* The lines of the response without an unwanted phrase
CleanResponse(lines) ==
    LET Unwanted(l) == \E i \in 1..Len(unwanted_phrases) : Contains(l, unwanted_phrases[i])
        cleaned[i \in 0..Len(lines)] ==
            IF i = 0 THEN <<>>
            ELSE cleaned[i - 1] \o (IF Unwanted(lines[i]) THEN <<>> ELSE <<lines[i]>>)
    IN  cleaned[Len(lines)]

DedupSources_keep_empty(sources) == Present(sources)

\* list(set(filter(None, all_sources))): a list without duplicates, None or
\* "", in no particular order
DedupSources(sources) == {u \in Present(sources) : u # ""}

ResponseOutcome_needs_sources(llm, sources) ==
    IF llm.exc \/ DedupSources(sources) = {} THEN Raise
    ELSE Ret([response |-> CleanResponse(llm.val), sources |-> DedupSources(sources)])

\* The end of generate_response_with_data after self.llm.invoke returned (or
\* raised) llm: ResponseWithSources(response, all_sources), or the exception
\* re-raised by the outer except clause
ResponseOutcome(llm, sources) ==
    IF llm.exc THEN Raise
    ELSE Ret([response |-> CleanResponse(llm.val), sources |-> DedupSources(sources)])

NextBlock_retry_until_success(pc, block) ==
    IF IsNone(block.context) THEN pc
    ELSE CASE pc = "search" -> "psa" [] pc = "psa" -> "weather" [] pc = "weather" -> "llm"

NextBlock_abort_on_failure(pc, block) ==
    IF IsNone(block.context) THEN "llm"
    ELSE CASE pc = "search" -> "psa" [] pc = "psa" -> "weather" [] pc = "weather" -> "llm"

\* The blocks follow one another, each in a try statement of its own:
\* whatever a block gave, the next one is entered
NextBlock(pc, block) ==
    CASE pc = "search" -> "psa" [] pc = "psa" -> "weather" [] pc = "weather" -> "llm"

KnowledgeBaseCalls_unless_web_search(msg, loc) ==
    IF NeedsWebSearch(msg) THEN <<>>
    ELSE << [ resolver |-> "knowledge_base",
              args |-> [message |-> msg, location |-> loc],
              requests |-> <<>>,
              ret |-> Ret(GetKnowledgeBaseInfo(msg, loc)) ] >>

\* self._get_knowledge_base_info(message, location): the call is made
\* whatever the classification, and it reads the tables of the module only
KnowledgeBaseCalls(msg, loc) ==
    << [ resolver |-> "knowledge_base",
         args |-> [message |-> msg, location |-> loc],
         requests |-> <<>>,
         ret |-> Ret(GetKnowledgeBaseInfo(msg, loc)) ] >>

\* The most turns a conversation is followed for
MaxTurns == 12

\* No call of generate_response_with_data is in progress
FusionIdle ==
    /\ fusion_pc = "idle"
    /\ message = <<>>
    /\ fusion_location = None
    /\ conversation_id = None
    /\ chat_history_text = <<>>
    /\ knowledge_context = <<>>
    /\ web_context = None
    /\ psa_context = None
    /\ weather_context = None
    /\ all_sources = {}
    /\ fusion_calls = <<>>
    /\ fusion_ret = Ret(None)
    /\ suspended = <<>>

\* A caller invokes generate_response_with_data(msg, loc, cid) for a message,
\* a location and a conversation id of the given sets: the classification,
\* the conversation history and the knowledge-base lookup
GenerateResponseWithData(msgs, locs, cids) ==
    /\ fusion_pc = "idle"
    /\ \E msg \in msgs, loc \in locs, cid \in cids :
        LET convs == IF ConversationGiven(cid)
                     THEN GetOrCreateMemory(conversations, cid[1])
                     ELSE conversations
            window == IF ConversationGiven(cid)
                      THEN LoadMemoryVariables(convs[cid[1]])
                      ELSE <<>>
            lookups == KnowledgeBaseCalls(msg, loc)
            kb == IF lookups = <<>> THEN NoInfo ELSE lookups[1].ret.val
        IN  /\ ConversationGiven(cid) => Len(convs[cid[1]]) < 2 * MaxTurns
            /\ message' = msg
            /\ fusion_location' = loc
            /\ conversation_id' = cid
            /\ conversations' = convs
            /\ chat_history_text' = ChatHistoryText(window)
            /\ knowledge_context' = kb.context
            /\ all_sources' = {Some(u) : u \in kb.sources}
            /\ fusion_calls' = lookups
    /\ fusion_pc' = "search"
    /\ UNCHANGED <<web_context, psa_context, weather_context, fusion_ret>>
    /\ UNCHANGED <<price_vars, search_vars, weather_vars, cache_vars, loop_vars>>

\* A call without a conversation id
FusionCall ==
    /\ GenerateResponseWithData(Messages, FusionLocations, {None})
    /\ UNCHANGED chat_vars

\* A call of a conversation
ConversationCall ==
    /\ GenerateResponseWithData({M_hello}, {None}, ConversationIds)
    /\ UNCHANGED chat_vars

\* The most times the caller of the one-conversation runs says "salamat po"
MaxThanks == 1

\* The human messages of a conversation that say "salamat po"
Thanks(messages) ==
    Cardinality({ i \in 1..Len(messages) :
                    messages[i].type = "human" /\ messages[i].content = M_salamat })

\* A call of one conversation whose messages differ from turn to turn
HistoryCall ==
    /\ GenerateResponseWithData({M_hello, M_salamat}, {None}, {Some("session-1")})
    /\ message' = M_salamat => Thanks(conversations'["session-1"]) < MaxThanks
    /\ UNCHANGED chat_vars

\* A call without a conversation id for a message that asks for a price and
\* the weather, or for one that asks for nothing
AwaitingCall ==
    /\ GenerateResponseWithData({M_presyo_panahon, M_hello}, {None}, {None})
    /\ UNCHANGED chat_vars

\* The web-search block: the search call, if the message needs one, runs to
\* its return (the call, its outcome and the block are each computed once)
FusionWebSearch ==
    /\ fusion_pc = "search"
    /\ IF NeedsWebSearch(message)
       THEN \E resp \in FusionSearchResponses :
            \E call \in {WebSearchCall(message, fusion_location)} :
            \E out \in {SearchOutcome(call.query, call.num_results, call.force,
                                      search_api_key, resp)} :
            \E block \in {CatchNoBlock(WebTryBody(call.branch, out.ret))} :
                /\ web_context' = block.context
                /\ all_sources' = all_sources \cup block.sources
                /\ fusion_calls' = Append(fusion_calls,
                                          [ resolver |-> "search",
                                            args |-> [ query |-> call.query,
                                                       num_results |-> call.num_results,
                                                       force |-> call.force ],
                                            requests |-> out.log,
                                            ret |-> out.ret ])
                /\ fusion_pc' = NextBlock("search", block)
       ELSE /\ fusion_pc' = NextBlock("search", NoBlock)
            /\ UNCHANGED <<web_context, all_sources, fusion_calls>>
    /\ UNCHANGED <<message, fusion_location, conversation_id, conversations,
                   chat_history_text, knowledge_context, psa_context, weather_context,
                   fusion_ret>>
    /\ UNCHANGED <<price_vars, search_vars, weather_vars, cache_vars, chat_vars, loop_vars>>

\* The PSA block: the get_palay_data call, if the message names one of the
\* block's keywords, runs to its return
FusionPsa ==
    /\ fusion_pc = "psa"
    /\ IF NeedsPsaData(message)
       THEN \E resps \in FusionPriceResponses :
            \E prov \in {PsaProvince(fusion_location)} :
            \E out \in {PalayRun("psa", prov, 2024, resps, <<>>)} :
            \E block \in {CatchNoBlock(PsaTryBlock(out.ret))} :
                /\ psa_context' = block.context
                /\ all_sources' = all_sources \cup block.sources
                /\ fusion_calls' = Append(fusion_calls,
                                          [ resolver |-> "price",
                                            args |-> [province |-> prov, year |-> 2024],
                                            requests |-> out.log,
                                            ret |-> out.ret ])
                /\ fusion_pc' = NextBlock("psa", block)
       ELSE /\ fusion_pc' = NextBlock("psa", NoBlock)
            /\ UNCHANGED <<psa_context, all_sources, fusion_calls>>
    /\ UNCHANGED <<message, fusion_location, conversation_id, conversations,
                   chat_history_text, knowledge_context, web_context, weather_context,
                   fusion_ret>>
    /\ UNCHANGED <<price_vars, search_vars, weather_vars, cache_vars, chat_vars, loop_vars>>

\* The weather block: the get_weather call, if the message names one of the
\* block's keywords, runs to its return
FusionWeather ==
    /\ fusion_pc = "weather"
    /\ IF NeedsWeatherData(message)
       THEN \E wresp \in FusionWeatherResponses, sresp \in FusionSearchResponses :
            \E loc \in {LocationOrPhilippines(fusion_location)} :
            \E out \in {WeatherRun(loc, weather_api_key, search_api_key, wresp, sresp)} :
            \E block \in {CatchNoBlock(WeatherTryBlock(out.ret))} :
                /\ weather_context' = block.context
                /\ all_sources' = all_sources \cup block.sources
                /\ fusion_calls' = Append(fusion_calls,
                                          [ resolver |-> "weather",
                                            args |-> [location |-> loc],
                                            requests |-> out.log,
                                            ret |-> out.ret ])
                /\ fusion_pc' = NextBlock("weather", block)
       ELSE /\ fusion_pc' = NextBlock("weather", NoBlock)
            /\ UNCHANGED <<weather_context, all_sources, fusion_calls>>
    /\ UNCHANGED <<message, fusion_location, conversation_id, conversations,
                   chat_history_text, knowledge_context, web_context, psa_context,
                   fusion_ret>>
    /\ UNCHANGED <<price_vars, search_vars, weather_vars, cache_vars, chat_vars, loop_vars>>

FusionLlm_save_on_error ==
    /\ fusion_pc = "llm"
    /\ \E llm \in LlmOutcomes :
        LET prompt == SystemPrompt(chat_history_text, knowledge_context, web_context,
                                   psa_context, weather_context, fusion_location)
        IN  /\ fusion_calls' = Append(fusion_calls,
                                      [ resolver |-> "llm",
                                        args |-> [system_prompt |-> prompt,
                                                  question |-> message],
                                        requests |-> <<>>,
                                        ret |-> llm ])
            /\ conversations' =
                   IF ConversationGiven(conversation_id)
                   THEN [ conversations EXCEPT
                            ![conversation_id[1]] =
                                SaveContext(@, message, IF llm.exc THEN <<>> ELSE llm.val) ]
                   ELSE conversations
            /\ fusion_ret' = ResponseOutcome(llm, all_sources)
    /\ fusion_pc' = "returned"
    /\ UNCHANGED <<message, fusion_location, conversation_id, chat_history_text,
                   knowledge_context, web_context, psa_context, weather_context,
                   all_sources>>
    /\ UNCHANGED <<price_vars, search_vars, weather_vars, cache_vars, chat_vars,
                   loop_vars>>

\* The system prompt, self.llm.invoke, the saving of the exchange in the
\* conversation's memory, the cleaning and the return
FusionLlm ==
    /\ fusion_pc = "llm"
    /\ \E llm \in LlmOutcomes :
        LET prompt == SystemPrompt(chat_history_text, knowledge_context, web_context,
                                   psa_context, weather_context, fusion_location)
        IN  /\ fusion_calls' = Append(fusion_calls,
                                      [ resolver |-> "llm",
                                        args |-> [system_prompt |-> prompt,
                                                  question |-> message],
                                        requests |-> <<>>,
                                        ret |-> llm ])
            /\ conversations' =
                   IF ~llm.exc /\ ConversationGiven(conversation_id)
                   THEN [ conversations EXCEPT
                            ![conversation_id[1]] = SaveContext(@, message, llm.val) ]
                   ELSE conversations
            /\ fusion_ret' = ResponseOutcome(llm, all_sources)
    /\ fusion_pc' = "returned"
    /\ UNCHANGED <<message, fusion_location, conversation_id, chat_history_text,
                   knowledge_context, web_context, psa_context, weather_context,
                   all_sources>>
    /\ UNCHANGED <<price_vars, search_vars, weather_vars, cache_vars, chat_vars, loop_vars>>

\* The caller takes the result (or the exception) and the call's frame is
\* gone; the conversations stay
FusionDone ==
    /\ fusion_pc = "returned"
    /\ fusion_pc' = "idle"
    /\ message' = <<>>
    /\ fusion_location' = None
    /\ conversation_id' = None
    /\ chat_history_text' = <<>>
    /\ knowledge_context' = <<>>
    /\ web_context' = None
    /\ psa_context' = None
    /\ weather_context' = None
    /\ all_sources' = {}
    /\ fusion_calls' = <<>>
    /\ fusion_ret' = Ret(None)
    /\ UNCHANGED conversations
    /\ UNCHANGED <<price_vars, search_vars, weather_vars, cache_vars, chat_vars, loop_vars>>

----------------------------------------------------------------------------
(* Fusion calls of several requests on the one event loop *)

\* The most calls that wait at an await while another runs
MaxSuspended == 1

\* The most turns a session is followed for when calls interleave
MaxSessionTurns == 1

\* The call is at an await of a block that calls its resolver
AtAwait ==
    \/ fusion_pc = "search" /\ NeedsWebSearch(message)
    \/ fusion_pc = "psa" /\ NeedsPsaData(message)
    \/ fusion_pc = "weather" /\ NeedsWeatherData(message)

\* The locals of the running call
Frame ==
    [ fusion_pc |-> fusion_pc, message |-> message, fusion_location |-> fusion_location,
      conversation_id |-> conversation_id, chat_history_text |-> chat_history_text,
      knowledge_context |-> knowledge_context, web_context |-> web_context,
      psa_context |-> psa_context, weather_context |-> weather_context,
      all_sources |-> all_sources, fusion_calls |-> fusion_calls, fusion_ret |-> fusion_ret ]

\* The sequence without its i-th element
Without(seq, i) == SubSeq(seq, 1, i - 1) \o SubSeq(seq, i + 1, Len(seq))

\* The running call waits for its resolver's upstream: control goes back to
\* the event loop, which may start or resume another call; the
\* conversations are the service's and stay
FusionSuspend ==
    /\ AtAwait
    /\ Len(suspended) < MaxSuspended
    /\ suspended' = Append(suspended, Frame)
    /\ fusion_pc' = "idle"
    /\ message' = <<>>
    /\ fusion_location' = None
    /\ conversation_id' = None
    /\ chat_history_text' = <<>>
    /\ knowledge_context' = <<>>
    /\ web_context' = None
    /\ psa_context' = None
    /\ weather_context' = None
    /\ all_sources' = {}
    /\ fusion_calls' = <<>>
    /\ fusion_ret' = Ret(None)
    /\ UNCHANGED conversations
    /\ UNCHANGED <<price_vars, search_vars, weather_vars, cache_vars, chat_vars>>

\* The event loop resumes a waiting call where it stopped
FusionResume ==
    /\ fusion_pc = "idle"
    /\ \E i \in 1..Len(suspended) :
        /\ suspended' = Without(suspended, i)
        /\ fusion_pc' = suspended[i].fusion_pc
        /\ message' = suspended[i].message
        /\ fusion_location' = suspended[i].fusion_location
        /\ conversation_id' = suspended[i].conversation_id
        /\ chat_history_text' = suspended[i].chat_history_text
        /\ knowledge_context' = suspended[i].knowledge_context
        /\ web_context' = suspended[i].web_context
        /\ psa_context' = suspended[i].psa_context
        /\ weather_context' = suspended[i].weather_context
        /\ all_sources' = suspended[i].all_sources
        /\ fusion_calls' = suspended[i].fusion_calls
        /\ fusion_ret' = suspended[i].fusion_ret
    /\ UNCHANGED conversations
    /\ UNCHANGED <<price_vars, search_vars, weather_vars, cache_vars, chat_vars>>

\* A call of a session for a message that makes the engine search
SessionCall ==
    /\ GenerateResponseWithData({M_latest}, {None}, ConversationIds)
    /\ Len(conversations'[conversation_id'[1]]) < 2 * MaxSessionTurns
    /\ UNCHANGED chat_vars

NextSessions ==
    \/ SessionCall
    \/ FusionWebSearch
    \/ FusionPsa
    \/ FusionWeather
    \/ FusionLlm
    \/ FusionDone
    \/ FusionSuspend
    \/ FusionResume

----------------------------------------------------------------------------
(* SimpleCache *)

\* settings.CACHE_TTL_SECONDS, which SimpleCache.__init__ copies to self.ttl
CACHE_TTL_SECONDS == 3600

Digits == <<"0","1","2","3","4","5","6","7","8","9">>

\* c.isalnum() on an ASCII character
IsAlnum(c) ==
    \/ \E i \in 1..Len(LowerAlpha) : LowerAlpha[i] = c \/ UpperAlpha[i] = c
    \/ \E i \in 1..Len(Digits) : Digits[i] = c

\* safe_key = "".join(c if c.isalnum() else "_" for c in key)
SafeKey(key) == [i \in 1..Len(key) |-> IF IsAlnum(key[i]) THEN key[i] ELSE "_"]

\* ".json"
S_dot_json == <<".","j","s","o","n">>

\* _get_cache_file: the name of the key's file inside cache_dir
GetCacheFile(key) == SafeKey(key) \o S_dot_json

\* file.endswith(suffix)
EndsWith(s, suffix) ==
    /\ Len(s) >= Len(suffix)
    /\ SubSeq(s, Len(s) - Len(suffix) + 1, Len(s)) = suffix

\* The values a caller hands to the cache: a str, a list, a tuple, None, or
\* an object json cannot serialize
PyStr(text) == [py |-> "str", v |-> text]
PyList(items) == [py |-> "list", v |-> items]
PyTuple(items) == [py |-> "tuple", v |-> items]
PyNone == [py |-> "NoneType", v |-> <<>>]
PyObject == [py |-> "object", v |-> <<>>]

\* json.dump of a value: a tuple is written as an array, an object that is
\* not serializable raises TypeError
JsonDump(value) ==
    CASE value.py = "str" -> Ret([j |-> "string", v |-> value.v])
      [] value.py \in {"list", "tuple"} -> Ret([j |-> "array", v |-> value.v])
      [] value.py = "NoneType" -> Ret([j |-> "null", v |-> <<>>])
      [] OTHER -> Raise

\* json.load of a value: an array is read as a list
JsonLoad(json) ==
    CASE json.j = "string" -> PyStr(json.v)
      [] json.j = "array" -> PyList(json.v)
      [] OTHER -> PyNone

\* A file json.dump(data, f) wrote to its end: {"value": ..., "created_at": ...}
WholeFile(json, created_at) ==
    [written |-> "whole", value |-> json, created_at |-> created_at]

\* A file json.dump left when the value raised: the text {"value": and
\* nothing more
PartialFile == [written |-> "partial", value |-> [j |-> "null", v |-> <<>>], created_at |-> 0]

\* No file
NoFiles == [f \in {} |-> PartialFile]

\* open(cache_file, 'w') and what was written until the file was closed
WriteFile(files, name, content) ==
    [f \in DOMAIN files \cup {name} |-> IF f = name THEN content ELSE files[f]]

\* os.remove(cache_file)
RemoveFile(files, name) == [f \in DOMAIN files \ {name} |-> files[f]]

Expired_at_ttl(content, now) == now - content.created_at >= CACHE_TTL_SECONDS

\* datetime.utcnow() - created_at > timedelta(seconds=self.ttl)
Expired(content, now) == now - content.created_at > CACHE_TTL_SECONDS

\* SimpleCache.get(key): the files it leaves and what it returns
GetOutcome(files, key, now) ==
    LET cache_file == GetCacheFile(key)
    IN  IF cache_file \notin DOMAIN files
        THEN [files |-> files, ret |-> Ret(PyNone)]
        ELSE IF files[cache_file].written = "partial"
        THEN \* json.load raises, except Exception: return None
             [files |-> files, ret |-> Ret(PyNone)]
        ELSE IF Expired(files[cache_file], now)
        THEN [files |-> RemoveFile(files, cache_file), ret |-> Ret(PyNone)]
        ELSE [files |-> files, ret |-> Ret(JsonLoad(files[cache_file].value))]

\* SimpleCache.set(key, value): the files it leaves and its outcome. The
\* method has no ttl parameter: a call that passes one raises TypeError
\* before the body runs.
SetOutcome(files, key, value, ttl, now) ==
    LET cache_file == GetCacheFile(key)
        dumped == JsonDump(value)
    IN  IF ~IsNone(ttl)
        THEN [files |-> files, ret |-> Raise]
        ELSE [ files |-> WriteFile(files, cache_file,
                                   IF dumped.exc THEN PartialFile
                                   ELSE WholeFile(dumped.val, now)),
               ret |-> Ret(PyNone) ]

DeleteOutcome_keep(files, key) == [files |-> files, ret |-> Ret(PyNone)]

\* SimpleCache.delete(key)
DeleteOutcome(files, key) ==
    LET cache_file == GetCacheFile(key)
    IN  [ files |-> IF cache_file \in DOMAIN files
                    THEN RemoveFile(files, cache_file) ELSE files,
          ret |-> Ret(PyNone) ]

\* SimpleCache.clear()
ClearOutcome(files) ==
    [ files |-> [f \in {g \in DOMAIN files : ~EndsWith(g, S_dot_json)} |-> files[f]],
      ret |-> Ret(PyNone) ]

\* "price:rice", "price_rice" (the same file as "price:rice") and "w"
K_price_colon_rice == <<"p","r","i","c","e",":","r","i","c","e">>
K_price_rice == <<"p","r","i","c","e","_","r","i","c","e">>
K_w == <<"w">>
CacheKeys == {K_price_colon_rice, K_price_rice, K_w}

\* "23.50", ("psa", "da") and object()
CacheValues == {PyStr(<<"2","3",".","5","0">>), PyTuple(<<"psa", "da">>), PyObject}

\* A third argument of set, in seconds, or none
TtlArguments == {None, Some(60)}

\* The single seconds the clock is followed for, from the start and from
\* one ttl after it
MaxExtraSeconds == 1

\* A call on the cache: the operation, its arguments, the clock when it
\* ran and its outcome
CacheOp(op, key, value, ttl, ret) ==
    [op |-> op, key |-> key, value |-> value, ttl |-> ttl, at |-> cache_now, ret |-> ret]

\* cache = SimpleCache(): an empty cache directory
CacheNew ==
    /\ cache_files = NoFiles
    /\ cache_now = 0
    /\ cache_op = [op |-> "none", key |-> <<>>, value |-> PyNone, ttl |-> None, at |-> 0,
                   ret |-> Ret(PyNone)]

\* cache.get(key)
CacheGet ==
    /\ \E key \in CacheKeys :
        LET out == GetOutcome(cache_files, key, cache_now)
        IN  /\ cache_files' = out.files
            /\ cache_op' = CacheOp("get", key, PyNone, None, out.ret)
    /\ UNCHANGED cache_now
    /\ UNCHANGED <<price_vars, search_vars, weather_vars, fusion_vars, chat_vars, loop_vars>>

\* cache.set(key, value) and cache.set(key, value, ttl)
CacheSet ==
    /\ \E key \in CacheKeys, value \in CacheValues, ttl \in TtlArguments :
        LET out == SetOutcome(cache_files, key, value, ttl, cache_now)
        IN  /\ cache_files' = out.files
            /\ cache_op' = CacheOp("set", key, value, ttl, out.ret)
    /\ UNCHANGED cache_now
    /\ UNCHANGED <<price_vars, search_vars, weather_vars, fusion_vars, chat_vars, loop_vars>>

\* cache.delete(key)
CacheDelete ==
    /\ \E key \in CacheKeys :
        LET out == DeleteOutcome(cache_files, key)
        IN  /\ cache_files' = out.files
            /\ cache_op' = CacheOp("delete", key, PyNone, None, out.ret)
    /\ UNCHANGED cache_now
    /\ UNCHANGED <<price_vars, search_vars, weather_vars, fusion_vars, chat_vars, loop_vars>>

\* cache.clear()
CacheClear ==
    /\ LET out == ClearOutcome(cache_files)
       IN  /\ cache_files' = out.files
           /\ cache_op' = CacheOp("clear", <<>>, PyNone, None, out.ret)
    /\ UNCHANGED cache_now
    /\ UNCHANGED <<price_vars, search_vars, weather_vars, fusion_vars, chat_vars, loop_vars>>

\* Time passes between two calls: a second, or a whole ttl
ClockAdvance ==
    /\ \E seconds \in {1, CACHE_TTL_SECONDS} :
        /\ cache_now + seconds <= CACHE_TTL_SECONDS + MaxExtraSeconds
        /\ seconds = 1 => cache_now % CACHE_TTL_SECONDS < MaxExtraSeconds
        /\ cache_now' = cache_now + seconds
    /\ UNCHANGED <<cache_files, cache_op>>
    /\ UNCHANGED <<price_vars, search_vars, weather_vars, fusion_vars, chat_vars, loop_vars>>

----------------------------------------------------------------------------
(* chat_endpoint *)

\* No request has reached chat_endpoint
ChatIdle ==
    /\ chat_request = None
    /\ chat_response = None
    /\ chat_now = 0

\* The conversation ids of the requests: absent, empty, and two sessions
RequestConversationIds == {None, Some(""), Some("session-1"), Some("session-2")}

\* The seconds the clock is followed for
MaxChatSeconds == 1

\* strftime('%S'): the second, two digits
TwoDigits(second) == IF second < 10 THEN "0" \o ToString(second) ELSE ToString(second)

\* f"conv_{datetime.now().strftime('%Y%m%d%H%M%S')}" for a request that
\* arrives at the given second of 2026-11-02 13:00
GeneratedConversationId(now) == "conv_202611021300" \o TwoDigits(now)

ConvId_always_new(request_conversation_id, now) == GeneratedConversationId(now)

\* conv_id = request.conversation_id or f"conv_{...}"
ConvId(request_conversation_id, now) ==
    IF ~IsNone(request_conversation_id) /\ request_conversation_id[1] # ""
    THEN request_conversation_id[1]
    ELSE GeneratedConversationId(now)

\* The most turns a conversation is followed for through chat_endpoint; the
\* conversations together are followed for one turn more
MaxChatTurns == 2

\* The messages stored in all conversations
RECURSIVE StoredInAll(_, _)
StoredInAll(convs, ids) ==
    IF ids = {} THEN 0
    ELSE LET c == CHOOSE c \in ids : TRUE
         IN  Len(convs[c]) + StoredInAll(convs, ids \ {c})

\* POST /api/v1/chat: chat_endpoint takes the request, chooses conv_id and
\* calls generate_response_with_data with it
ChatEndpoint ==
    /\ \E request_conversation_id \in RequestConversationIds :
        /\ chat_request' = Some([ message |-> M_hello,
                                  location |-> None,
                                  conversation_id |-> request_conversation_id ])
        /\ GenerateResponseWithData({M_hello}, {None},
                                    {Some(ConvId(request_conversation_id, chat_now))})
    /\ Len(conversations'[conversation_id'[1]]) < 2 * MaxChatTurns
    /\ StoredInAll(conversations', DOMAIN conversations') < 2 * (MaxChatTurns + 1)
    /\ chat_response' = None
    /\ UNCHANGED chat_now

\* generate_response_with_data has returned to chat_endpoint: the
\* ChatResponse with conv_id, or the HTTPException of status 500 when it
\* raised
ChatReturn ==
    /\ fusion_pc = "returned"
    /\ chat_response' =
           IF fusion_ret.exc
           THEN Some([ status |-> 500,
                       response |-> <<>>,
                       conversation_id |-> "",
                       location |-> None,
                       sources |-> {} ])
           ELSE Some([ status |-> 200,
                       response |-> fusion_ret.val.response,
                       conversation_id |-> conversation_id[1],
                       location |-> chat_request[1].location,
                       sources |-> fusion_ret.val.sources ])
    /\ fusion_pc' = "idle"
    /\ message' = <<>>
    /\ fusion_location' = None
    /\ conversation_id' = None
    /\ chat_history_text' = <<>>
    /\ knowledge_context' = <<>>
    /\ web_context' = None
    /\ psa_context' = None
    /\ weather_context' = None
    /\ all_sources' = {}
    /\ fusion_calls' = <<>>
    /\ fusion_ret' = Ret(None)
    /\ UNCHANGED <<conversations, chat_request, chat_now>>
    /\ UNCHANGED <<price_vars, search_vars, weather_vars, cache_vars, loop_vars>>

----------------------------------------------------------------------------
(* Specifications *)

\* The Price Resolver alone
InitPrice ==
    /\ PriceIdle
    /\ SearchIdle
    /\ WeatherIdle
    /\ FusionIdle
    /\ conversations = NoConversations
    /\ CacheNew
    /\ ChatIdle
    /\ search_api_key = HardcodedSerperKey
    /\ weather_api_key = None

NextPrice == GetPalayData \/ PalayTier \/ PalayDone

SpecPrice == InitPrice /\ [][NextPrice]_vars

\* The Search Resolver alone, for every value of its API key
InitSearch ==
    /\ PriceIdle
    /\ SearchIdle
    /\ WeatherIdle
    /\ FusionIdle
    /\ conversations = NoConversations
    /\ CacheNew
    /\ ChatIdle
    /\ search_api_key \in SerperKeys
    /\ weather_api_key = None

NextSearch == Search \/ SearchDone

SpecSearch == InitSearch /\ [][NextSearch]_vars

\* The Weather Resolver with the Search Resolver it calls, for every value
\* of the two API keys
InitWeather ==
    /\ PriceIdle
    /\ SearchIdle
    /\ WeatherIdle
    /\ FusionIdle
    /\ conversations = NoConversations
    /\ CacheNew
    /\ ChatIdle
    /\ search_api_key \in SerperKeys
    /\ weather_api_key \in WeatherKeys

NextWeather == GetWeather \/ WeatherTier1 \/ WeatherTier2 \/ WeatherDone

SpecWeather == InitWeather /\ [][NextWeather]_vars

\* The fusion call without a conversation, for every value of the two API
\* keys
InitFusion ==
    /\ PriceIdle
    /\ SearchIdle
    /\ WeatherIdle
    /\ FusionIdle
    /\ conversations = NoConversations
    /\ CacheNew
    /\ ChatIdle
    /\ search_api_key \in SerperKeys
    /\ weather_api_key \in {None, Some("wx-key")}

NextFusion ==
    FusionCall \/ FusionWebSearch \/ FusionPsa \/ FusionWeather \/ FusionLlm \/ FusionDone

SpecFusion == InitFusion /\ [][NextFusion]_vars

\* The fusion call whose awaits complete: each block's resolver call returns
\* (every upstream request ends in an answer, an error or the client
\* timeout) and the model call returns or raises
InitFusionLive ==
    /\ PriceIdle
    /\ SearchIdle
    /\ WeatherIdle
    /\ FusionIdle
    /\ conversations = NoConversations
    /\ CacheNew
    /\ ChatIdle
    /\ search_api_key = HardcodedSerperKey
    /\ weather_api_key = Some("wx-key")

NextFusionLive ==
    AwaitingCall \/ FusionWebSearch \/ FusionPsa \/ FusionWeather \/ FusionLlm \/ FusionDone

\* The await in progress completes
AwaitCompletes == FusionWebSearch \/ FusionPsa \/ FusionWeather \/ FusionLlm

SpecFusionLive == InitFusionLive /\ [][NextFusionLive]_vars /\ WF_vars(AwaitCompletes)

\* The fusion calls of conversations
InitConversation ==
    /\ PriceIdle
    /\ SearchIdle
    /\ WeatherIdle
    /\ FusionIdle
    /\ conversations = NoConversations
    /\ CacheNew
    /\ ChatIdle
    /\ search_api_key = HardcodedSerperKey
    /\ weather_api_key = None

NextConversation ==
    \/ ConversationCall
    \/ FusionWebSearch
    \/ FusionPsa
    \/ FusionWeather
    \/ FusionLlm
    \/ FusionDone

SpecConversation == InitConversation /\ [][NextConversation]_vars

\* The fusion calls of two sessions, interleaved at their awaits
SpecSessions == InitConversation /\ [][NextSessions]_vars

\* The chat endpoint with the fusion calls it makes
\* A second passes on the clock chat_endpoint reads, between two requests
SecondPasses ==
    /\ fusion_pc = "idle"
    /\ chat_now < MaxChatSeconds
    /\ chat_now' = chat_now + 1
    /\ UNCHANGED <<chat_request, chat_response>>
    /\ UNCHANGED <<price_vars, search_vars, weather_vars, fusion_vars, cache_vars,
                   loop_vars>>

NextChat ==
    \/ ChatEndpoint
    \/ SecondPasses
    \/ FusionWebSearch
    \/ FusionPsa
    \/ FusionWeather
    \/ FusionLlm
    \/ ChatReturn

SpecChat == InitConversation /\ [][NextChat]_vars

\* The cache alone
InitCache ==
    /\ PriceIdle
    /\ SearchIdle
    /\ WeatherIdle
    /\ FusionIdle
    /\ conversations = NoConversations
    /\ CacheNew
    /\ ChatIdle
    /\ search_api_key = HardcodedSerperKey
    /\ weather_api_key = None

NextCache == CacheGet \/ CacheSet \/ CacheDelete \/ CacheClear \/ ClockAdvance

SpecCache == InitCache /\ [][NextCache]_vars

\* The fusion calls of one conversation: the order of its turns
NextHistory ==
    \/ HistoryCall
    \/ FusionWebSearch
    \/ FusionPsa
    \/ FusionWeather
    \/ FusionLlm
    \/ FusionDone

SpecHistory == InitConversation /\ [][NextHistory]_vars


----------------------------------------------------------------------------
(* Properties of the Price Resolver *)

\* A usable payload: a 200 response whose JSON object has the endpoint's
\* price field
UsablePayload(e) ==
    /\ e.resp.net = "ok"
    /\ e.resp.status = 200
    /\ e.resp.json.t = "obj"
    /\ (IF e.endpoint = "psa" THEN "price_per_kg" ELSE "price") \in DOMAIN e.resp.json.v

\* The i-th request of the fallback chain for province prov
ChainEndpoint(i) == IF i \in {1, 3} THEN "psa" ELSE "da"
ChainRegion(i, prov) == IF i <= 2 THEN prov ELSE S_Philippines

PriceFinished == price_pc = "returned"

\* C1: for a non-national region the requests are issued in the order
\* regional primary, regional secondary, national primary, national
\* secondary; a request is issued only after every earlier tier gave no
\* usable payload, so none follows a usable payload.
C1_TierOrder ==
    ~IsNational(province) =>
        /\ Len(price_log) <= 4
        /\ \A i \in 1..Len(price_log) :
            /\ price_log[i].endpoint = ChainEndpoint(i)
            /\ price_log[i].region = ChainRegion(i, province)
            /\ \A j \in 1..(i - 1) : ~UsablePayload(price_log[j])
        /\ (price_pc \in {"psa", "da", "national_psa", "national_da"} =>
                \A j \in 1..Len(price_log) : ~UsablePayload(price_log[j]))

C1_Witness ==
    /\ PriceFinished
    /\ ~IsNational(province)
    /\ Len(price_log) = 4
    /\ UsablePayload(price_log[4])

\* C2: for a non-national region, tier 1 failing and tier 2 succeeding gives
\* tier 2's payload for the requested region, unmarked, and no national
\* request.
C2_RegionalSecondary ==
    ( /\ PriceFinished
      /\ ~IsNational(province)
      /\ Len(price_log) >= 2
      /\ ~UsablePayload(price_log[1])
      /\ UsablePayload(price_log[2]) ) =>
        /\ Len(price_log) = 2
        /\ price_log[2].region = province
        /\ ~price_ret.exc
        /\ price_ret.val = FormatDaResponse(price_log[2].resp.json, province).val
        /\ price_ret.val[1].province = province
        /\ price_ret.val[1].data.average_price = price_log[2].resp.json.v.price
        /\ price_ret.val[1].data.source_title = "DA Price Monitoring"

C2_Witness ==
    /\ PriceFinished
    /\ province = P_Benguet
    /\ Len(price_log) = 2
    /\ price_log[1].resp = HttpTimeout
    /\ UsablePayload(price_log[2])
    /\ ~IsNone(price_ret.val)

\* What get_palay_data("Philippines") resolves to for the responses the
\* national tiers gave
NationalResolution ==
    IF Len(price_log) >= 3 /\ UsablePayload(price_log[3])
    THEN FormatPsaResponse(price_log[3].resp.json, S_Philippines).val
    ELSE IF Len(price_log) >= 4 /\ UsablePayload(price_log[4])
    THEN FormatDaResponse(price_log[4].resp.json, S_Philippines).val
    ELSE None

\* C3: for a non-national region with both regional tiers failing, the
\* result is the national resolution (primary, else secondary, else None),
\* and a national payload carries the fallback label in its province field
\* whichever national tier supplied it.
C3_NationalFallback ==
    ( /\ PriceFinished
      /\ ~IsNational(province)
      /\ Len(price_log) >= 2
      /\ ~UsablePayload(price_log[1])
      /\ ~UsablePayload(price_log[2]) ) =>
        /\ Len(price_log) >= 3
        /\ Len(price_log) = (IF UsablePayload(price_log[3]) THEN 3 ELSE 4)
        /\ \A i \in 3..Len(price_log) :
            price_log[i].region = S_Philippines /\ price_log[i].endpoint = ChainEndpoint(i)
        /\ ~price_ret.exc
        /\ IsNone(price_ret.val) = IsNone(NationalResolution)
        /\ ~IsNone(price_ret.val) =>
            /\ price_ret.val[1].province = FallbackLabel(province)
            /\ price_ret.val[1].province # NationalResolution[1].province
            /\ [price_ret.val[1] EXCEPT
                    !.province = S_Philippines,
                    !.data.source_title = NationalResolution[1].data.source_title]
                 = NationalResolution[1]

C3_Witness ==
    /\ PriceFinished
    /\ province = P_Ifugao
    /\ Len(price_log) = 4
    /\ ~UsablePayload(price_log[3])
    /\ UsablePayload(price_log[4])
    /\ ~IsNone(price_ret.val)
    /\ price_ret.val[1].province = FallbackLabel(P_Ifugao)

\* The number of tiers that apply to a province
ApplicableTiers(prov) == IF IsNational(prov) THEN 2 ELSE 4

\* C4: get_palay_data never raises, and returns None exactly when every
\* applicable tier was tried and none gave a usable payload (a timeout, a
\* network error, a non-200 status or a malformed body is "no data" and the
\* chain goes on).
C4_NoneIffExhausted ==
    PriceFinished =>
        /\ ~price_ret.exc
        /\ IsNone(price_ret.val) <=>
            ( /\ Len(price_log) = ApplicableTiers(province)
              /\ \A i \in 1..Len(price_log) : ~UsablePayload(price_log[i]) )

C4_Witness ==
    /\ PriceFinished
    /\ IsNone(price_ret.val)
    /\ Len(price_log) = 4
    /\ price_log[1].resp = HttpTimeout
    /\ price_log[2].resp.status = 500
    /\ price_log[3].resp.json = JInvalid
    /\ price_log[4].resp = HttpOk(200, JObj([price_per_kg |-> "23.5"]))

----------------------------------------------------------------------------
(* Properties of the Search Resolver *)

SearchFinished == search_pc = "returned"

\* The query, lowercased and stripped, contains a keyword of the list
MatchesKeyword(q, keywords) ==
    \E i \in 1..Len(keywords) : Contains(Strip(Lower(q)), keywords[i])

\* The result carries no organic result and no source
EmptyResult(ret) == ret.val.organic_results = <<>> /\ ret.val.sources = <<>>

\* C7: a query matching the weather keywords, searched with force = false,
\* gets the empty result and no request is sent upstream.
C7_WeatherShortCircuit ==
    (SearchFinished /\ ~force /\ MatchesKeyword(query, weather_keywords)) =>
        /\ search_log = <<>>
        /\ ~search_ret.exc
        /\ EmptyResult(search_ret)

C7_Witness ==
    /\ SearchFinished
    /\ ~force
    /\ search_api_key # ""
    /\ query = Q_training
    /\ search_log = <<>>
    /\ EmptyResult(search_ret)

\* The upstream answered 200 with a JSON object whose organic results are
\* objects
SearchSucceeded(resp) ==
    /\ resp.net = "ok"
    /\ resp.status = 200
    /\ resp.json.t = "obj"
    /\ "organic" \in DOMAIN resp.json.v =>
            \A i \in 1..Len(resp.json.v.organic) : resp.json.v.organic[i].t = "obj"

\* The organic array of a response that succeeded
UpstreamOrganic(resp) ==
    IF "organic" \in DOMAIN resp.json.v THEN resp.json.v.organic ELSE <<>>

\* ret is the upstream's answer, parsed: its first five results in order,
\* each with the upstream's title, link and snippet
IsParsedResponse(ret, resp, q) ==
    LET organic == UpstreamOrganic(resp)
        n == IF Len(organic) < 5 THEN Len(organic) ELSE 5
    IN  /\ ~ret.exc
        /\ ret.val.query = q
        /\ Len(ret.val.organic_results) = n
        /\ Len(ret.val.sources) = n
        /\ \A i \in 1..n :
            LET e == organic[i].v
                r == ret.val.organic_results[i]
                src == ret.val.sources[i]
            IN  /\ r.title = (IF "title" \in DOMAIN e THEN <<e.title>> ELSE None)
                /\ r.url = (IF "link" \in DOMAIN e THEN <<e.link>> ELSE None)
                /\ r.snippet = (IF "snippet" \in DOMAIN e THEN <<e.snippet>> ELSE None)
                /\ src.url = (IF "link" \in DOMAIN e THEN e.link ELSE "")
                /\ src.title = (IF "title" \in DOMAIN e THEN e.title ELSE "")
                /\ src.source_type = "web"

\* C8: with force = true and an API key, every query (a weather or time/date
\* one included) is sent upstream, and when the request succeeds the result
\* is the parsed upstream response.
C8_ForceBypasses ==
    (SearchFinished /\ force /\ search_api_key # "") =>
        /\ Len(search_log) = 1
        /\ search_log[1].req.num = num_results
        /\ SearchSucceeded(search_log[1].resp) =>
                IsParsedResponse(search_ret, search_log[1].resp, query)

C8_Witness ==
    /\ SearchFinished
    /\ force
    /\ query = Q_weather_today
    /\ Len(search_log) = 1
    /\ SearchSucceeded(search_log[1].resp)
    /\ Len(UpstreamOrganic(search_log[1].resp)) = 6
    /\ Len(search_ret.val.organic_results) = 5

\* C9 as claimed: a query matching the time/date keywords, searched with
\* force = false, gets the empty result without any upstream request,
\* whatever its length.
C9_TimeShortCircuitAnyLength ==
    (SearchFinished /\ ~force /\ MatchesKeyword(query, time_keywords)) =>
        /\ search_log = <<>>
        /\ EmptyResult(search_ret)

\* C9: a query matching the time/date keywords and of fewer than seven
\* words, searched with force = false, gets the empty result without any
\* upstream request.
C9_TimeShortCircuitShort ==
    ( /\ SearchFinished
      /\ ~force
      /\ MatchesKeyword(query, time_keywords)
      /\ WordCount(Strip(Lower(query))) < 7 ) =>
        /\ search_log = <<>>
        /\ ~search_ret.exc
        /\ EmptyResult(search_ret)

C9_Witness ==
    /\ SearchFinished
    /\ ~force
    /\ search_api_key # ""
    /\ query = Q_six_words
    /\ ~MatchesKeyword(query, weather_keywords)
    /\ search_log = <<>>
    /\ EmptyResult(search_ret)

\* C10: search never raises; its result always has the keys query,
\* organic_results, sources and timestamp, the two lists of equal length;
\* and both lists are empty whenever no request was sent (short-circuit,
\* no API key) or the request did not succeed (non-200, timeout, network
\* error, unparseable body).
C10_UniformResult ==
    SearchFinished =>
        /\ ~search_ret.exc
        /\ DOMAIN search_ret.val = {"query", "organic_results", "sources", "timestamp"}
        /\ search_ret.val.query = query
        /\ Len(search_ret.val.organic_results) = Len(search_ret.val.sources)
        /\ (search_log = <<>> \/ ~SearchSucceeded(search_log[1].resp)) =>
                EmptyResult(search_ret)

C10_Witness ==
    /\ SearchFinished
    /\ Len(search_log) = 1
    /\ search_log[1].resp = HttpOk(200, JObj([organic |-> <<EntrySeq[1], JStr("ad")>>]))
    /\ ~search_ret.exc
    /\ EmptyResult(search_ret)

----------------------------------------------------------------------------
(* Properties of the Weather Resolver *)

WeatherFinished == weather_pc = "returned"

\* No API key is configured: the setting is None or empty
NoWeatherKey == weather_api_key \in {None, Some("")}

\* The call has run its tier 2: the forced three-result PAGASA search
Tier2Ran ==
    /\ force
    /\ num_results = 3
    /\ query = PagasaQuery(LocationQuery(location))

\* C5: without a weather API key no request goes to the keyed provider and
\* tier 1 is never entered; the call starts at tier 2.
C5_NoKeySkipsTier1 ==
    NoWeatherKey =>
        /\ weather_log = <<>>
        /\ weather_pc \in {"idle", "pagasa", "returned"}
        /\ WeatherFinished => Tier2Ran

C5_Witness ==
    /\ weather_api_key = Some("")
    /\ WeatherFinished
    /\ weather_log = <<>>
    /\ Tier2Ran
    /\ Len(search_log) = 1

\* Tier 1 gave a payload: the keyed provider answered 200 with a JSON object
Tier1Yielded ==
    /\ Len(weather_log) = 1
    /\ weather_log[1].resp.net = "ok"
    /\ weather_log[1].resp.status = 200
    /\ weather_log[1].resp.json.t = "obj"

\* Tier 2 gave a payload: the search returned an organic result whose first
\* entry has a snippet
Tier2Yielded ==
    /\ search_ret.val.organic_results # <<>>
    /\ ~IsNone(search_ret.val.organic_results[1].snippet)

\* C6: get_weather never raises and never returns None; it returns tier 1's
\* payload if tier 1 gave one (tier 2 is then not run), else tier 2's if
\* tier 2 gave one, else the static default; so with tier 1 skipped or
\* failed and no organic search result the result is the default payload,
\* condition "Data Unavailable".
C6_WeatherOrder ==
    WeatherFinished =>
        /\ ~weather_ret.exc
        /\ ~IsNone(weather_ret.val)
        /\ Len(weather_log) = (IF NoWeatherKey THEN 0 ELSE 1)
        /\ IF Tier1Yielded
           THEN /\ weather_ret.val[1].source_title = "WeatherAPI.com"
                /\ search_log = <<>>
                /\ ~Tier2Ran
           ELSE /\ Tier2Ran
                /\ IF Tier2Yielded
                   THEN /\ weather_ret.val[1].temperature = Some("See link")
                        /\ weather_ret.val[1].source_url = search_ret.val.organic_results[1].url
                   ELSE /\ weather_ret.val[1] = DefaultWeather(LocationQuery(location))
                        /\ weather_ret.val[1].condition = Some("Data Unavailable")
                        /\ weather_ret.val[1].source_url = Some("https://www.pagasa.dost.gov.ph")

C6_Witness ==
    /\ WeatherFinished
    /\ ~NoWeatherKey
    /\ Len(weather_log) = 1
    /\ weather_log[1].resp = HttpTimeout
    /\ Len(search_log) = 1
    /\ search_ret.val.organic_results = <<>>
    /\ weather_ret.val[1].condition = Some("Data Unavailable")

----------------------------------------------------------------------------
(* Properties of the Fusion Engine *)

FusionFinished == fusion_pc = "returned"

\* The fusion call returned a result rather than raising
FusionReturned == FusionFinished /\ ~fusion_ret.exc

\* The calls the fusion call has made to one resolver
CallsOf(resolver) == {i \in 1..Len(fusion_calls) : fusion_calls[i].resolver = resolver}
Called(resolver) == CallsOf(resolver) # {}
TheCall(resolver) == fusion_calls[CHOOSE i \in CallsOf(resolver) : TRUE]

\* The text of one block of the system prompt handed to the model
PromptText(block) ==
    LET prompt == TheCall("llm").args.system_prompt
    IN  prompt[CHOOSE i \in 1..Len(prompt) : prompt[i].block = block].text

\* The source list of the result
FusedSources == fusion_ret.val.sources

\* A resolver that was not invoked, raised or came back empty-handed
SearchGaveNothing ==
    \/ ~Called("search")
    \/ TheCall("search").ret.exc
    \/ TheCall("search").ret.val.organic_results = <<>>

PriceGaveNothing ==
    \/ ~Called("price")
    \/ TheCall("price").ret.exc
    \/ IsNone(TheCall("price").ret.val)

WeatherGaveNothing ==
    \/ ~Called("weather")
    \/ TheCall("weather").ret.exc
    \/ IsNone(TheCall("weather").ret.val)

\* The URLs each category contributes: the knowledge base's sources, the
\* URLs of the search results placed in the web block, the source URL of the
\* price payload, and the source URL of the weather payload (the PAGASA
\* forecast page when the payload names none)
KbUrls == TheCall("knowledge_base").ret.val.sources

SearchUrls ==
    IF SearchGaveNothing THEN {}
    ELSE LET organic_results == TheCall("search").ret.val.organic_results
             placed == Len(PromptText("web")[1].results)
         IN  Present({organic_results[i].url : i \in 1..placed})

PriceUrls ==
    IF PriceGaveNothing THEN {} ELSE {TheCall("price").ret.val[1].data.source_url}

WeatherUrls ==
    IF WeatherGaveNothing THEN {}
    ELSE LET source_url == TheCall("weather").ret.val[1].source_url
         IN  IF source_url \in {None, Some("")}
             THEN {"https://bagong.pagasa.dost.gov.ph/weather"}
             ELSE {source_url[1]}

NonEmpty(urls) == urls \ {""}

\* C11: resolver isolation.  Once the fusion call is over, every resolver
\* its message triggers has been invoked, whatever the other resolvers gave;
\* a resolver that gave nothing leaves its block of the prompt empty and
\* the source list holds URLs of the other categories only; a resolver that
\* gave a result has its block in the prompt and its URLs in the source
\* list.
C11_ResolverIsolation ==
    FusionFinished =>
        /\ NeedsWebSearch(message) => Called("search")
        /\ NeedsPsaData(message) => Called("price")
        /\ NeedsWeatherData(message) => Called("weather")
        /\ IF SearchGaveNothing
           THEN /\ PromptText("web") = None
                /\ FusionReturned => FusedSources \subseteq KbUrls \cup PriceUrls \cup WeatherUrls
           ELSE /\ PromptText("web") # None
                /\ FusionReturned => NonEmpty(SearchUrls) \subseteq FusedSources
        /\ IF PriceGaveNothing
           THEN /\ PromptText("psa") = None
                /\ FusionReturned => FusedSources \subseteq KbUrls \cup SearchUrls \cup WeatherUrls
           ELSE /\ PromptText("psa") # None
                /\ PromptText("psa")[1].data = TheCall("price").ret.val[1]
                /\ FusionReturned => NonEmpty(PriceUrls) \subseteq FusedSources
        /\ IF WeatherGaveNothing
           THEN /\ PromptText("weather") = None
                /\ FusionReturned => FusedSources \subseteq KbUrls \cup SearchUrls \cup PriceUrls
           ELSE /\ PromptText("weather") # None
                /\ PromptText("weather")[1].data = TheCall("weather").ret.val[1]
                /\ FusionReturned => NonEmpty(WeatherUrls) \subseteq FusedSources

\* A price query whose search failed while the price resolver gave a result,
\* and whose answer carries the price block
C11_Witness ==
    /\ FusionReturned
    /\ Called("search") /\ SearchGaveNothing
    /\ TheCall("search").requests # <<>>
    /\ Called("price") /\ ~PriceGaveNothing
    /\ Called("weather")
    /\ PromptText("psa") # None
    /\ PriceUrls \subseteq FusedSources

\* Every external source failed: the search provider, the price endpoints
\* and WeatherAPI.com were asked and none gave anything usable
AllSourcesFailed ==
    /\ Called("search") /\ TheCall("search").requests # <<>> /\ SearchGaveNothing
    /\ Called("price") /\ TheCall("price").requests # <<>> /\ PriceGaveNothing
    /\ Called("weather") /\ Len(TheCall("weather").requests) = 2
    /\ TheCall("weather").ret.val[1].condition = Some("Data Unavailable")

\* C12: a finished fusion call raised only if the knowledge-base lookup or
\* the model call raised; otherwise, whatever the external sources did, it
\* returned a result with a response and a source list.
C12_OnlyModelErrorsPropagate ==
    FusionFinished =>
        IF TheCall("knowledge_base").ret.exc \/ TheCall("llm").ret.exc
        THEN fusion_ret.exc
        ELSE /\ ~fusion_ret.exc
             /\ DOMAIN fusion_ret.val = {"response", "sources"}

\* Search, price and weather all failed upstream and the call returned
C12_Witness == FusionReturned /\ AllSourcesFailed /\ FusedSources # {}

\* A URL without its trailing slash: the least a normalization of URLs does
NormalizeUrl(u) ==
    IF Len(u) > 0 /\ SubSeq(u, Len(u), Len(u)) = "/" THEN SubSeq(u, 1, Len(u) - 1) ELSE u

\* C13: the source list of a result holds no empty URL and no two entries
\* with the same normalized URL.
C13_NoDuplicateNormalizedUrl ==
    FusionReturned =>
        /\ "" \notin FusedSources
        /\ \A u, v \in FusedSources : NormalizeUrl(u) = NormalizeUrl(v) => u = v

\* C14: the source list of a result is the union of the contributions: the
\* non-empty URLs of the knowledge base, of the search results placed in the
\* web block, of the price payload and of the weather payload, and nothing
\* else.
C14_SourcesAreUnion ==
    FusionReturned =>
        FusedSources = NonEmpty(KbUrls \cup SearchUrls \cup PriceUrls \cup WeatherUrls)

\* All four categories contribute a URL, and a search result with an empty
\* link is among those placed in the web block
C14_Witness ==
    /\ FusionReturned
    /\ KbUrls # {}
    /\ NonEmpty(SearchUrls) # {} /\ "" \in SearchUrls
    /\ PriceUrls # {}
    /\ WeatherUrls # {}
    /\ Cardinality(FusedSources) >= 4

\* The place of a block in the system prompt, and whether it has text
BlockPosition(block) ==
    LET prompt == TheCall("llm").args.system_prompt
    IN  CHOOSE i \in 1..Len(prompt) : prompt[i].block = block

HasText(block) == PromptText(block) # <<>>

\* The blocks with text follow one another in the prompt as in order
InOrder(order) ==
    \A i, j \in 1..Len(order) :
        i < j /\ HasText(order[i]) /\ HasText(order[j])
            => BlockPosition(order[i]) < BlockPosition(order[j])

\* C15 as stated: the blocks are merged in the order knowledge base, price,
\* weather, search.
C15_OrderKbPriceWeatherSearch ==
    FusionFinished => InOrder(<<"knowledge", "psa", "weather", "web">>)

\* C15: within one fusion call the blocks are merged into the prompt in the
\* fixed order knowledge base, search, price, weather (after the
\* conversation history), whatever each resolver gave.
C15_OrderKbSearchPriceWeather ==
    FusionFinished => InOrder(<<"history", "knowledge", "web", "psa", "weather">>)

\* A prompt with the four category blocks
C15_Witness ==
    /\ FusionFinished
    /\ HasText("knowledge") /\ HasText("web") /\ HasText("psa") /\ HasText("weather")

\* The resolvers of the three external categories, and whether the message
\* triggers each
Resolvers == {"search", "price", "weather"}

Triggered(resolver) ==
    CASE resolver = "search" -> NeedsWebSearch(message)
      [] resolver = "price" -> NeedsPsaData(message)
      [] resolver = "weather" -> NeedsWeatherData(message)

\* C16: the resolvers of a fusion call are issued concurrently: while the
\* call of a triggered resolver is still to be issued, no sibling's call has
\* already returned.  (fusion_calls holds the calls that have returned.)
C16_IssuedConcurrently ==
    fusion_pc \in {"search", "psa", "weather"} =>
        \A r \in Resolvers :
            Triggered(r) /\ ~Called(r) => \A s \in Resolvers \ {r} : ~Called(s)

\* C17: in every fusion call, whatever the message and its classification,
\* the knowledge-base lookup is made exactly once, for the call's message and
\* location, without any network request, and its text is in the prompt.
C17_KnowledgeBaseAlwaysRun ==
    fusion_pc # "idle" =>
        /\ Cardinality(CallsOf("knowledge_base")) = 1
        /\ TheCall("knowledge_base").args = [message |-> message, location |-> fusion_location]
        /\ TheCall("knowledge_base").requests = <<>>
        /\ knowledge_context = TheCall("knowledge_base").ret.val.context
        /\ FusionFinished => PromptText("knowledge") = knowledge_context

\* A finished call whose message triggers all three resolvers, with its
\* lookup and the sources it gave
C17_Witness ==
    /\ FusionFinished
    /\ Called("knowledge_base")
    /\ \A r \in Resolvers : Triggered(r) /\ Called(r)
    /\ KbUrls # {}

\* C18: a price query always escalates to the Search Resolver: search is
\* invoked with force = true, and with an API key configured the request
\* goes upstream even when the query matches the weather or the time/date
\* keywords.
C18_PriceEscalatesToSearch ==
    fusion_pc \in {"psa", "weather", "llm", "returned"} /\ IsPriceQuery(message) =>
        /\ Cardinality(CallsOf("search")) = 1
        /\ TheCall("search").args.force
        /\ search_api_key # "" =>
            /\ Len(TheCall("search").requests) = 1
            /\ TheCall("search").requests[1].req.q
                 = LocalizedQuery(TheCall("search").args.query)

\* A price query whose search query matches the weather keywords, sent
\* upstream
C18_Witness ==
    /\ FusionFinished
    /\ IsPriceQuery(message)
    /\ IsWeatherQuery(TheCall("search").args.query)
    /\ Len(TheCall("search").requests) = 1

\* C19: the Price Resolver is invoked exactly when the message is
\* classified as a price query.
C19_PriceResolverIffPriceQuery ==
    fusion_pc \in {"weather", "llm", "returned"} => (Called("price") <=> IsPriceQuery(message))

\* The turns in the window of a conversation: the exchanges that
\* load_memory_variables returns
WindowTurns(cid) == Len(LoadMemoryVariables(conversations[cid])) \div 2

\* The turns appended to a conversation
AppendedTurns(cid) == Len(conversations[cid]) \div 2

StoredMessages == conversations[conversation_id[1]]

\* A fusion call of a conversation has read its history and not returned yet
ReadingHistory ==
    /\ fusion_pc \in {"search", "psa", "weather", "llm"}
    /\ ConversationGiven(conversation_id)

\* The number of messages of the K most recent turns of a conversation
RecentCount(messages) ==
    IF Len(messages) <= 2 * memory_k THEN Len(messages) ELSE 2 * memory_k

\* C21: the conversation window holds exactly the K = 10 most recent turns of
\* its session, in the order they were appended: the i-th message of the
\* window is the i-th of the last 2K stored messages, so that once more than
\* K turns were appended the oldest one is gone; the history a fusion call
\* reads is that window, line by line.
C21_WindowIsMostRecentInOrder ==
    /\ \A cid \in DOMAIN conversations :
         LET stored == conversations[cid]
             window == LoadMemoryVariables(stored)
             n == RecentCount(stored)
         IN  /\ Len(window) = n
             /\ \A i \in 1..n : window[i] = stored[Len(stored) - n + i]
    /\ ReadingHistory =>
         LET n == RecentCount(StoredMessages)
         IN  /\ Len(chat_history_text) = n
             /\ \A i \in 1..n :
                  LET m == StoredMessages[Len(StoredMessages) - n + i]
                  IN  /\ chat_history_text[i].content = m.content
                      /\ chat_history_text[i].role = "Human" <=> m.type = "human"

\* More than K turns were appended, the first of them said "salamat po" and
\* the history the call reads starts with a later "hello"
C21_Witness ==
    /\ ReadingHistory
    /\ Len(StoredMessages) > 2 * memory_k
    /\ StoredMessages[1].content = M_salamat
    /\ chat_history_text[1].content = M_hello
    /\ chat_history_text[1].role = "Human"

\* The step in which a fusion call of a conversation gets its answer from
\* the model
AnswerStep ==
    /\ fusion_pc = "llm"
    /\ fusion_pc' = "returned"
    /\ ~fusion_ret'.exc
    /\ ConversationGiven(conversation_id)

\* The exchange of the call in progress: its query and the model's answer
Exchange(answer) ==
    << [type |-> "human", content |-> message], [type |-> "ai", content |-> answer] >>

\* C22: a fusion call only reads its session's window until the answer is
\* produced: entering the call leaves every stored message as it was (a new
\* session starts empty) and the history read is the window without the
\* current query; no step before the answer changes a conversation; the
\* step that produces the answer appends exactly one (query, answer) pair
\* to the call's own session, and a call whose model fails appends nothing.
C22_ReadThenAppendOnePair ==
    [][ /\ \A c \in DOMAIN conversations :
             /\ c \in DOMAIN conversations'
             /\ conversations'[c] # conversations[c] =>
                    /\ AnswerStep
                    /\ conversation_id = Some(c)
                    /\ conversations'[c] =
                           conversations[c] \o Exchange(fusion_calls'[Len(fusion_calls')].ret.val)
        /\ \A c \in DOMAIN conversations' \ DOMAIN conversations :
             /\ conversations'[c] = <<>>
             /\ fusion_pc = "idle" /\ conversation_id' = Some(c)
        /\ AnswerStep =>
             Len(conversations'[conversation_id[1]]) = Len(StoredMessages) + 2
        /\ (fusion_pc = "idle" /\ fusion_pc' # "idle" /\ ConversationGiven(conversation_id')) =>
             LET stored == conversations'[conversation_id'[1]]
                 n == RecentCount(stored)
             IN  /\ Len(chat_history_text') = n
                 /\ \A i \in 1..n :
                      chat_history_text'[i].content = stored[Len(stored) - n + i].content
    ]_vars

\* A conversation's second call has returned its answer and the session
\* ends with that call's query and the model's answer
C22_Witness ==
    /\ fusion_pc = "returned"
    /\ ~fusion_ret.exc
    /\ ConversationGiven(conversation_id)
    /\ Len(StoredMessages) = 4
    /\ StoredMessages[3] = [type |-> "human", content |-> message]
    /\ StoredMessages[4].type = "ai"
    /\ StoredMessages[1].content # message

----------------------------------------------------------------------------
(* Properties of the cache *)

\* The step is a call of the named operation on the cache
CacheStep(op) == cache_op' # cache_op /\ cache_op'.op = op

\* The step is a call of the named operation with the given key
KeyStep(op, key) == CacheStep(op) /\ cache_op'.key = key

\* The last call on the cache was the named operation, and no time has
\* passed since
JustDone(op) == cache_op.op = op /\ cache_op.at = cache_now

\* The ttl a set call asks for: the one it supplies, else the service's
TtlOf(op) == IF IsNone(op.ttl) THEN CACHE_TTL_SECONDS ELSE op.ttl[1]

\* The call returned the value
Returned(op, value) == ~op.ret.exc /\ op.ret.val = value

\* The files that hold an entry written to its end
WholeFiles(files) == {f \in DOMAIN files : files[f].written = "whole"}

\* C23: for every key k and value v, a get(k) that follows a set(k, v, ttl)
\* with no call on the cache in between and the clock not past the ttl
\* returns v.
C23_RoundTrip ==
    [][ \A key \in CacheKeys :
          ( /\ cache_op.op = "set"
            /\ cache_op.key = key
            /\ KeyStep("get", key)
            /\ cache_now - cache_op.at <= TtlOf(cache_op) )
          => Returned(cache_op', cache_op.value)
    ]_vars

\* C24: a get(k) on an entry older than the ttl returns absent and removes
\* the entry's file; a get(k) on an entry whose age is at most the ttl
\* returns its value and leaves the files as they were; and a file whose
\* entry is older than the ttl leaves the storage only in a get, a delete or
\* a clear (no step of the clock and no other call sweeps it).
C24_LazyExpiry ==
    [][ /\ \A key \in CacheKeys :
             LET f == GetCacheFile(key)
             IN  (KeyStep("get", key) /\ f \in WholeFiles(cache_files)) =>
                    IF cache_now - cache_files[f].created_at > CACHE_TTL_SECONDS
                    THEN /\ Returned(cache_op', PyNone)
                         /\ f \notin DOMAIN cache_files'
                         /\ \A g \in DOMAIN cache_files \ {f} :
                              g \in DOMAIN cache_files' /\ cache_files'[g] = cache_files[g]
                    ELSE /\ Returned(cache_op', JsonLoad(cache_files[f].value))
                         /\ cache_files' = cache_files
        /\ \A f \in WholeFiles(cache_files) :
             ( /\ cache_now - cache_files[f].created_at > CACHE_TTL_SECONDS
               /\ f \notin DOMAIN cache_files' )
             => \/ CacheStep("get") \/ CacheStep("delete") \/ CacheStep("clear")
    ]_vars

\* An entry older than the ttl is still in storage one second after the
\* ttl has passed, and the last call on the cache returned another entry
\* that was exactly as old as the ttl
C24_Witness ==
    /\ cache_op.op = "get"
    /\ ~cache_op.ret.exc /\ cache_op.ret.val # PyNone
    /\ GetCacheFile(cache_op.key) \in WholeFiles(cache_files)
    /\ cache_op.at - cache_files[GetCacheFile(cache_op.key)].created_at = CACHE_TTL_SECONDS
    /\ \E f \in WholeFiles(cache_files) :
         cache_now - cache_files[f].created_at > CACHE_TTL_SECONDS

\* C25: each entry expires by the ttl supplied to the set call that wrote
\* it: a set that supplies a ttl completes and leaves an entry of its key,
\* written at that instant, which a get returns until the clock is past
\* that ttl and no longer.
C25_EntryExpiresByOwnTtl ==
    (JustDone("set") /\ ~IsNone(cache_op.ttl)) =>
        LET f == GetCacheFile(cache_op.key)
        IN  /\ ~cache_op.ret.exc
            /\ f \in WholeFiles(cache_files)
            /\ cache_files[f].created_at = cache_op.at
            /\ \A later \in {cache_op.at + cache_op.ttl[1], cache_op.at + cache_op.ttl[1] + 1} :
                 GetOutcome(cache_files, cache_op.key, later).ret.val = PyNone
                    <=> later - cache_op.at > cache_op.ttl[1]

\* C26: the calls on one key, in whatever order they run, never leave a
\* partially written entry in storage, and the last set wins: when a
\* set(k, v) has completed, the entry of k is v, whatever was stored
\* before.
C26_LastSetWins ==
    /\ \A f \in DOMAIN cache_files : cache_files[f].written = "whole"
    /\ (JustDone("set") /\ IsNone(cache_op.ttl)) =>
         LET f == GetCacheFile(cache_op.key)
         IN  /\ f \in DOMAIN cache_files
             /\ JsonLoad(cache_files[f].value) = cache_op.value

\* C27 as stated: after delete(k) the entry of k is absent, and it stays
\* absent until a set on k; get(k) returns absent while it is; a delete of
\* a key with no entry changes nothing (so a second delete changes
\* nothing); clear() leaves no entry.
C27_AbsentUntilSetOnKey ==
    [][ \A key \in CacheKeys :
          LET f == GetCacheFile(key)
          IN  /\ KeyStep("delete", key) =>
                    /\ f \notin DOMAIN cache_files'
                    /\ f \notin DOMAIN cache_files => cache_files' = cache_files
              /\ (f \notin DOMAIN cache_files /\ f \in DOMAIN cache_files') =>
                    KeyStep("set", key)
              /\ (KeyStep("get", key) /\ f \notin DOMAIN cache_files) =>
                    Returned(cache_op', PyNone)
              /\ CacheStep("clear") => cache_files' = NoFiles
    ]_vars

\* C27, amended: after delete(k) the storage unit of k is absent, and it
\* stays absent until a set on k or on a key that sanitizes to the same
\* file name; get(k) returns absent while it is; a delete of a key whose
\* storage unit is absent changes nothing (so a second delete changes
\* nothing); a delete leaves every other storage unit as it was; clear()
\* leaves no entry.
C27_AbsentUntilSetOnFile ==
    [][ \A key \in CacheKeys :
          LET f == GetCacheFile(key)
          IN  /\ KeyStep("delete", key) =>
                    /\ f \notin DOMAIN cache_files'
                    /\ f \notin DOMAIN cache_files => cache_files' = cache_files
                    /\ \A g \in DOMAIN cache_files \ {f} :
                         g \in DOMAIN cache_files' /\ cache_files'[g] = cache_files[g]
              /\ (f \notin DOMAIN cache_files /\ f \in DOMAIN cache_files') =>
                    /\ CacheStep("set")
                    /\ GetCacheFile(cache_op'.key) = f
              /\ (KeyStep("get", key) /\ f \notin DOMAIN cache_files) =>
                    Returned(cache_op', PyNone)
              /\ CacheStep("clear") => cache_files' = NoFiles
    ]_vars

\* "price_rice" was just deleted: its file, which "price:rice" shares, is
\* gone and the file of "w" is still there
C27_Witness ==
    /\ JustDone("delete")
    /\ cache_op.key = K_price_rice
    /\ GetCacheFile(K_price_colon_rice) \notin DOMAIN cache_files
    /\ GetCacheFile(K_w) \in WholeFiles(cache_files)

----------------------------------------------------------------------------
(* Properties of the chat endpoint *)

\* The request chat_endpoint is serving, or served last, supplied a
\* conversation id (None and "" supply none)
SuppliedId == ~IsNone(chat_request) /\ ConversationGiven(chat_request[1].conversation_id)

\* The conversation id of that request
RequestId == chat_request[1].conversation_id[1]

\* C28: for every chat request that supplies a conversation_id, the fusion
\* call made for it carries that id and reads its history from the window
\* of that session; the step that produces the answer appends the exchange
\* to that session and leaves every other session as it was; and the
\* response of a successfully answered request carries the same
\* conversation_id.
C28_SameSession ==
    [][ SuppliedId' =>
          /\ fusion_pc' \in {"search", "psa", "weather", "llm"} =>
                /\ conversation_id' = Some(RequestId')
                /\ RequestId' \in DOMAIN conversations'
                /\ fusion_pc = "idle" =>
                      chat_history_text' =
                          ChatHistoryText(LoadMemoryVariables(conversations'[RequestId']))
          /\ (fusion_pc = "llm" /\ fusion_pc' = "returned" /\ ~fusion_ret'.exc) =>
                /\ conversations'[RequestId] =
                       conversations[RequestId]
                           \o Exchange(fusion_calls'[Len(fusion_calls')].ret.val)
                /\ \A c \in DOMAIN conversations \ {RequestId} :
                       conversations'[c] = conversations[c]
          /\ (~IsNone(chat_response') /\ chat_response'[1].status = 200) =>
                chat_response'[1].conversation_id = RequestId'
    ]_vars

\* A request of "session-2" was answered with that id after its history
\* was appended to, while "session-1" holds a history of another length
C28_Witness ==
    /\ SuppliedId
    /\ RequestId = "session-2"
    /\ ~IsNone(chat_response)
    /\ chat_response[1].status = 200
    /\ chat_response[1].conversation_id = "session-2"
    /\ "session-1" \in DOMAIN conversations
    /\ Len(conversations["session-1"]) = 4
    /\ Len(conversations["session-2"]) = 2

----------------------------------------------------------------------------
(* Termination of the fusion call *)

\* The upstream requests one resolver call may issue at most: the four
\* tiers of get_palay_data, the one request of search, the WeatherAPI.com
\* request and the PAGASA search of get_weather
MostRequests(resolver) ==
    CASE resolver = "price" -> 4
      [] resolver = "search" -> 1
      [] resolver = "weather" -> 2
      [] OTHER -> 0

\* C29: every fusion call eventually returns, a result or an error, when
\* every upstream call it awaits ends (in an answer, a failure or a timeout):
\* a call in progress leads to its return, it makes each resolver call and
\* the model call at most once, and no resolver call issues more upstream
\* requests than it has tiers.
C29_FusionCallReturns ==
    /\ (fusion_pc \in {"search", "psa", "weather", "llm"}) ~> (fusion_pc = "returned")
    /\ [](\A i \in 1..Len(fusion_calls) :
             /\ Len(fusion_calls[i].requests) <= MostRequests(fusion_calls[i].resolver)
             /\ \A j \in 1..Len(fusion_calls) :
                  fusion_calls[j].resolver = fusion_calls[i].resolver => j = i)

\* A fusion call has returned although every upstream request of its
\* three resolvers timed out, the price resolver after all four tiers
C29_Witness ==
    /\ FusionFinished
    /\ Called("search") /\ Called("price") /\ Called("weather")
    /\ Len(TheCall("price").requests) = 4
    /\ \A i \in 1..Len(fusion_calls) :
         \A r \in 1..Len(fusion_calls[i].requests) :
             fusion_calls[i].requests[r].resp = HttpTimeout

----------------------------------------------------------------------------
(* The national region *)

\* C30: when the requested region is the national one, in any letter case,
\* the Price Resolver issues at most the two regional-tier requests, both
\* for the region as requested, never enters a national-fallback tier, and
\* a payload it returns carries the requested region and the unmarked
\* source title, not the fallback label.
C30_NationalNoFallback ==
    Lower(province) = S_philippines =>
        /\ Len(price_log) <= 2
        /\ price_pc \notin {"national_psa", "national_da"}
        /\ \A i \in 1..Len(price_log) :
             /\ price_log[i].tier = (IF i = 1 THEN "psa" ELSE "da")
             /\ price_log[i].region = province
        /\ (PriceFinished /\ ~IsNone(price_ret.val)) =>
             /\ price_ret.val[1].province = province
             /\ price_ret.val[1].province # FallbackLabel(province)
             /\ price_ret.val[1].data.source_title
                    \in {"PSA OpenStat - Palay Production Estimates", "DA Price Monitoring"}

\* get_palay_data("PHILIPPINES") has returned None after its two regional
\* requests gave nothing
C30_Witness ==
    /\ PriceFinished
    /\ province = P_PHILIPPINES
    /\ Len(price_log) = 2
    /\ ~UsablePayload(price_log[1])
    /\ ~UsablePayload(price_log[2])
    /\ IsNone(price_ret.val)

----------------------------------------------------------------------------
(* Malformed upstream answers *)

\* A tier's request was answered with a 2xx status and a body that lacks
\* the endpoint's price field
LacksPriceField(e) ==
    /\ e.resp.net = "ok"
    /\ e.resp.status \in 200..299
    /\ ~(/\ e.resp.json.t = "obj"
         /\ (IF e.endpoint = "psa" THEN "price_per_kg" ELSE "price")
                \in DOMAIN e.resp.json.v)

\* No answer was received for the tier's request
Unanswered(e) == e.resp.net \in {"timeout", "error"}

\* Where the fallback chain goes after a tier that gave no data
TierAfterNoData(tier, prov) ==
    CASE tier = "psa" -> "da"
      [] tier = "da" -> IF IsNational(prov) THEN "returned" ELSE "national_psa"
      [] tier = "national_psa" -> "national_da"
      [] tier = "national_da" -> "returned"

\* C31: a price tier answered with a success status and a body without the
\* price field gives no data, as an unreachable upstream does: the chain
\* goes on to the next tier, and after the last tier the call returns None.
C31_MissingFieldIsNoData ==
    \A i \in 1..Len(price_log) :
        (LacksPriceField(price_log[i]) \/ Unanswered(price_log[i])) =>
            IF i < Len(price_log)
            THEN price_log[i + 1].tier = TierAfterNoData(price_log[i].tier, province)
            ELSE /\ price_pc = TierAfterNoData(price_log[i].tier, province)
                 /\ price_ret = Ret(None)

\* The regional primary answered 200 with an error object and the regional
\* secondary was asked next
C31_Witness ==
    /\ Len(price_log) = 2
    /\ price_log[1].resp = HttpOk(200, JObj([error |-> "no such series"]))
    /\ LacksPriceField(price_log[1])
    /\ price_log[2].tier = "da"
    /\ price_log[2].region = province

\* The keyed weather provider answered with a 2xx status and a body without
\* the nested current object
LacksCurrent(e) ==
    /\ e.resp.net = "ok"
    /\ e.resp.status \in 200..299
    /\ ~(e.resp.json.t = "obj" /\ "current" \in DOMAIN e.resp.json.v)

\* C32: a keyed-weather answer with a success status and no current object
\* makes tier 1 count as failed: the Weather Resolver goes on to tier 2 and
\* does not return a payload built from that answer.
C32_MissingCurrentAdvances ==
    \A i \in 1..Len(weather_log) :
        LacksCurrent(weather_log[i]) =>
            \/ weather_pc = "pagasa"
            \/ /\ WeatherFinished
               /\ Tier2Ran
               /\ weather_ret.val[1].source_title # "WeatherAPI.com"

----------------------------------------------------------------------------
(* The national-fallback note *)

\* The tier whose payload get_palay_data returned to the fusion call
PriceTier == TheCall("price").requests[Len(TheCall("price").requests)].tier

\* The fusion call has a price payload in its context
PriceInContext ==
    /\ Called("price")
    /\ ~IsNone(TheCall("price").ret.val)
    /\ ~IsNone(psa_context)

\* C33: the fused context carries the note that local data is unavailable
\* and a national figure is shown exactly when the price payload came from
\* a national-fallback tier, primary or secondary; a payload of a regional
\* tier gets no note.
C33_NoteIffNationalTier ==
    PriceInContext =>
        (psa_context[1].note <=> PriceTier \in {"national_psa", "national_da"})

----------------------------------------------------------------------------
(* The condition of the search tier *)

\* The lower-cased snippet of the first organic result holds one of the
\* two words
Mentions(word1, word2) ==
    LET snippet == Lower(search_ret.val.organic_results[1].snippet[1])
    IN  Contains(snippet, word1) \/ Contains(snippet, word2)

\* get_weather returned the payload of its search tier
Tier2Returned ==
    /\ WeatherFinished
    /\ Tier2Ran
    /\ Tier2Yielded

\* C34: the search tier classifies the first snippet as "Rainy/Cloudy" if it
\* mentions rain or shower, else "Sunny/Fair" if it mentions sunny or fair,
\* else "Stormy" if it mentions storm or typhoon, else "Unknown": the first
\* match in that order wins, so rain with typhoon is "Rainy/Cloudy"; and the
\* temperature field is the fixed text "See link", never a number taken
\* from the snippet.
C34_ConditionFirstMatch ==
    Tier2Returned =>
        /\ weather_ret.val[1].condition =
              Some(CASE Mentions(S_rain, S_shower) -> "Rainy/Cloudy"
                     [] ~Mentions(S_rain, S_shower) /\ Mentions(S_sunny, S_fair) -> "Sunny/Fair"
                     [] /\ ~Mentions(S_rain, S_shower)
                        /\ ~Mentions(S_sunny, S_fair)
                        /\ Mentions(S_storm, S_typhoon) -> "Stormy"
                     [] OTHER -> "Unknown")
        /\ (Mentions(S_rain, S_rain) /\ Mentions(S_typhoon, S_typhoon)) =>
               weather_ret.val[1].condition = Some("Rainy/Cloudy")
        /\ weather_ret.val[1].temperature = Some("See link")

\* The first snippet mentions a typhoon and rain and the payload's
\* condition is "Rainy/Cloudy"
C34_Witness ==
    /\ Tier2Returned
    /\ search_ret.val.organic_results[1].snippet = Some(N_typhoon_rain)
    /\ weather_ret.val[1].condition = Some("Rainy/Cloudy")
    /\ weather_ret.val[1].temperature = Some("See link")

----------------------------------------------------------------------------
(* Weather questions and the search provider *)

\* The requests a resolver call sent to the search provider
SearchRequests(call) ==
    IF call.resolver \notin {"search", "weather"} THEN {}
    ELSE {r \in 1..Len(call.requests) :
            call.requests[r].req.url = "https://google.serper.dev/search"}

\* C35: for a message that triggers the Weather Resolver and is not a price
\* query, the search call the fusion engine makes itself (people or recency
\* branch, force = false) sends nothing to the search provider; the only
\* search-provider request of the fusion call, if there is one, is the
\* forced tier-2 search of the Weather Resolver.
C35_WeatherQuestionNotSearched ==
    (NeedsWeatherData(message) /\ ~IsPriceQuery(message)) =>
        \A i \in 1..Len(fusion_calls) :
            /\ fusion_calls[i].resolver = "search" =>
                  /\ ~fusion_calls[i].args.force
                  /\ fusion_calls[i].requests = <<>>
            /\ SearchRequests(fusion_calls[i]) # {} =>
                  /\ fusion_calls[i].resolver = "weather"
                  /\ Cardinality(SearchRequests(fusion_calls[i])) = 1

\* "who is the latest climate official" with a search key: the people search sent
\* nothing and the weather call sent its tier-2 search
C35_Witness ==
    /\ FusionFinished
    /\ message = M_climate_official
    /\ IsAboutPeople(message)
    /\ ~IsTimeOrDateQuery(message)
    /\ search_api_key # ""
    /\ Called("search")
    /\ TheCall("search").requests = <<>>
    /\ Called("weather")
    /\ SearchRequests(TheCall("weather")) # {}

----------------------------------------------------------------------------
(* Keys and storage units of the cache *)

\* The two keys have the same sanitized form, hence the same file
SameUnit(k1, k2) == GetCacheFile(k1) = GetCacheFile(k2)

\* C36: the cache is keyed by the sanitized key: a set or a delete on k1
\* leaves what get(k2) returns as it was unless k1 and k2 have the same
\* sanitized form, and keys of the same sanitized form share one entry: a
\* get(k2) that follows a set(k1, v) returns v.
C36_KeyedBySanitizedKey ==
    [][ \A k1 \in CacheKeys, k2 \in CacheKeys :
          /\ ((KeyStep("set", k1) \/ KeyStep("delete", k1)) /\ ~SameUnit(k1, k2)) =>
                GetOutcome(cache_files', k2, cache_now).ret
                    = GetOutcome(cache_files, k2, cache_now).ret
          /\ ( /\ cache_op.op = "set"
               /\ cache_op.key = k1
               /\ IsNone(cache_op.ttl)
               /\ SameUnit(k1, k2)
               /\ KeyStep("get", k2)
               /\ cache_now - cache_op.at <= CACHE_TTL_SECONDS )
             => Returned(cache_op', cache_op.value)
    ]_vars

----------------------------------------------------------------------------
(* Sessions *)

\* The step enters a call of generate_response_with_data
CallEntered == fusion_pc = "idle" /\ fusion_pc' = "search" /\ suspended' = suspended

\* C37: windows are per session: the first call that names a session id
\* creates its window, empty; no window is ever removed; and a window
\* changes only in the step in which the call of its own session appends
\* its exchange, whatever calls of other sessions are waiting at an await
\* or run in between.
C37_WindowsPerSession ==
    [][ /\ DOMAIN conversations \subseteq DOMAIN conversations'
        /\ \A c \in DOMAIN conversations' \ DOMAIN conversations :
             /\ conversations'[c] = <<>>
             /\ CallEntered
             /\ conversation_id' = Some(c)
        /\ (CallEntered /\ ConversationGiven(conversation_id')) =>
             conversation_id'[1] \in DOMAIN conversations'
        /\ \A b \in DOMAIN conversations :
             conversations'[b] # conversations[b] =>
                /\ fusion_pc = "llm"
                /\ conversation_id = Some(b)
                /\ conversations'[b]
                     = SaveContext(conversations[b], message,
                                   fusion_calls'[Len(fusion_calls')].ret.val)
    ]_vars

\* A call of session-2 waits at its search while a call of session-1 has
\* appended its exchange; the window of session-2 is still empty
C37_Witness ==
    /\ Len(suspended) = 1
    /\ suspended[1].conversation_id = Some("session-2")
    /\ suspended[1].fusion_pc = "search"
    /\ fusion_pc = "returned"
    /\ conversation_id = Some("session-1")
    /\ ~fusion_ret.exc
    /\ Len(conversations["session-1"]) = 2
    /\ conversations["session-2"] = <<>>

----------------------------------------------------------------------------
(* Failed turns *)

\* The step in which the model call of a conversation's fusion call raises
FailureStep ==
    /\ fusion_pc = "llm"
    /\ fusion_pc' = "returned"
    /\ fusion_ret'.exc
    /\ ConversationGiven(conversation_id)

\* C38: a fusion call that ends in an error leaves the window of its
\* session as it was before the call: the failing step changes no stored
\* message, and when the error is returned the window still reads as the
\* history the call read on entry.
C38_FailedTurnNotStored ==
    /\ [][FailureStep => conversations' = conversations]_vars
    /\ []((FusionFinished /\ fusion_ret.exc /\ ConversationGiven(conversation_id)) =>
            chat_history_text = ChatHistoryText(LoadMemoryVariables(StoredMessages)))

\* The second call of a session failed: the window holds the one exchange
\* of the first call, which is the history the failed call read
C38_Witness ==
    /\ FusionFinished
    /\ fusion_ret.exc
    /\ conversation_id = Some("session-1")
    /\ Len(StoredMessages) = 2
    /\ Len(chat_history_text) = 2
    /\ StoredMessages[1].content = M_hello
    /\ message = M_salamat

----------------------------------------------------------------------------
(* Generated conversation ids *)

\* The step takes a chat request that supplies no conversation id
IdlessRequestTaken ==
    /\ fusion_pc = "idle"
    /\ fusion_pc' = "search"
    /\ chat_request' # None
    /\ ~ConversationGiven(chat_request'[1].conversation_id)

\* C39: two chat requests without a conversation_id never get the same
\* generated id: the id generated for a request names no window that an
\* earlier request has used, so the request starts from an empty history.
C39_GeneratedIdIsFresh ==
    [][ IdlessRequestTaken =>
            /\ conversation_id'[1] \notin DOMAIN conversations
            /\ chat_history_text' = <<>>
    ]_vars

----------------------------------------------------------------------------
(* The upstream requests of one fusion call *)

\* The upstream requests the fusion call has issued so far
RequestCount ==
    LET count[i \in 0..Len(fusion_calls)] ==
            IF i = 0 THEN 0 ELSE count[i - 1] + Len(fusion_calls[i].requests)
    IN  count[Len(fusion_calls)]

\* The requests a weather call sent to the keyed weather provider
KeyedWeatherRequests(call) ==
    {r \in 1..Len(call.requests) :
        call.requests[r].req.url = "http://api.weatherapi.com/v1/current.json"}

\* The branch of the web-search block a search call's arguments belong to
BranchOf(args) ==
    CASE args.force -> "price"
      [] ~args.force /\ args.num_results = 5 -> "people"
      [] OTHER -> "regular"

\* C40: in one fusion call the engine calls the Search Resolver at most
\* once, in the price branch if the message is a price query, else in the
\* people branch if it is about people, else in the recency branch; and the
\* call issues at most seven upstream requests: one general search, four
\* price tiers, one keyed weather request and one tier-2 weather search.
C40_OneSearchSevenRequests ==
    /\ Cardinality(CallsOf("search")) <= 1
    /\ Called("search") =>
         BranchOf(TheCall("search").args) =
            (IF IsPriceQuery(message) THEN "price"
             ELSE IF IsAboutPeople(message) THEN "people"
             ELSE "regular")
    /\ RequestCount <= 7
    /\ \A i \in 1..Len(fusion_calls) :
         LET call == fusion_calls[i]
         IN  CASE call.resolver = "search" -> Len(call.requests) <= 1
               [] call.resolver = "price" -> Len(call.requests) <= 4
               [] call.resolver = "weather" ->
                    /\ Cardinality(CallsOf("weather")) = 1
                    /\ Cardinality(KeyedWeatherRequests(call)) <= 1
                    /\ Cardinality(SearchRequests(call)) <= 1
                    /\ Len(call.requests) <= 2
               [] OTHER -> call.requests = <<>>

\* "Presyo ng palay at panahon" with both keys set and no upstream
\* answering: the search, four price tiers, the keyed weather request and
\* the tier-2 search, seven requests in all
C40_Witness ==
    /\ FusionFinished
    /\ message = M_presyo_panahon
    /\ RequestCount = 7
    /\ Len(TheCall("search").requests) = 1
    /\ Len(TheCall("price").requests) = 4
    /\ Cardinality(KeyedWeatherRequests(TheCall("weather"))) = 1
    /\ Cardinality(SearchRequests(TheCall("weather"))) = 1

====
